---- MODULE Spec2Model ----
(***************************************************************************)
(* A model of the FER reply tool's extraction pipeline                      *)
(* (fer_reply_tool_v5_src/app/core).  The extractors are pure functions of  *)
(* text, so each one is an operator computed the way the code computes it,  *)
(* and each component has a small specification whose Init draws the input  *)
(* from a bounded set and whose actions apply the extractor.                *)
(*                                                                          *)
(* A text is a sequence of characters; a character is a one-symbol string   *)
(* ("a", "1", " ", "\n"; the soft hyphen U+00AD is the symbol "SHY").       *)
(***************************************************************************)
EXTENDS Integers, Sequences, FiniteSets, TLC

VARIABLES pc, input, out

vars == <<pc, input, out>>

(***************************************************************************)
(* Characters and Python's str helpers.                                     *)
(***************************************************************************)
UpperSeq == <<"A","B","C","D","E","F","G","H","I","J","K","L","M",
              "N","O","P","Q","R","S","T","U","V","W","X","Y","Z">>

LowerSeq == <<"a","b","c","d","e","f","g","h","i","j","k","l","m",
              "n","o","p","q","r","s","t","u","v","w","x","y","z">>

Upper == {UpperSeq[i] : i \in DOMAIN UpperSeq}

Lower == {LowerSeq[i] : i \in DOMAIN LowerSeq}

Alpha == Upper \cup Lower

Digit == {"0","1","2","3","4","5","6","7","8","9"}

\* \w of Python's re
WordCh == Alpha \cup Digit \cup {"_"}

\* \s of Python's re, and the characters str.strip() removes
WS == {" ", "\t", "\n", "\r", "\f"}

SHY == "SHY"

\* str.upper() on one character
ToUpper(c) == IF c \in Lower THEN UpperSeq[CHOOSE i \in DOMAIN LowerSeq : LowerSeq[i] = c] ELSE c

\* str.lower() on one character
ToLower(c) == IF c \in Upper THEN LowerSeq[CHOOSE i \in DOMAIN UpperSeq : UpperSeq[i] = c] ELSE c

StrUpper(s) == [i \in DOMAIN s |-> ToUpper(s[i])]

StrLower(s) == [i \in DOMAIN s |-> ToLower(s[i])]

\* the least and the greatest element of a non-empty set of integers
Min(S) == CHOOSE x \in S : \A y \in S : x <= y

Max(S) == CHOOSE x \in S : \A y \in S : x >= y

RECURSIVE Strip(_, _)
\* str.strip(chars); str.strip() is Strip(s, WS)
Strip(s, chars) ==
    IF s = <<>> THEN s
    ELSE IF s[1] \in chars THEN Strip(Tail(s), chars)
    ELSE IF s[Len(s)] \in chars THEN Strip(SubSeq(s, 1, Len(s) - 1), chars)
    ELSE s

\* the characters of a string literal
Chars(str) == [i \in 1..Len(str) |-> SubSeq(str, i, i)]

RECURSIVE Flatten(_)
\* "".join(parts)
Flatten(parts) ==
    IF parts = <<>> THEN <<>>
    ELSE IF Len(parts) = 1 THEN parts[1]
    ELSE Flatten(SubSeq(parts, 1, Len(parts) \div 2))
             \o Flatten(SubSeq(parts, Len(parts) \div 2 + 1, Len(parts)))

\* the sequence without the later repeats of an element
Dedup(q) ==
    LET at   == [i \in DOMAIN q |-> <<i, q[i]>>]
        kept == SelectSeq(at, LAMBDA e : \A j \in 1..(e[1] - 1) : q[j] # e[2])
    IN [i \in DOMAIN kept |-> kept[i][2]]

(***************************************************************************)
(* Python's re, as a backtracking matcher.  A pattern is a tree; ReEnds     *)
(* gives the cursor positions at which a match of the pattern starting at   *)
(* cursor p can end, in the order in which backtracking tries them: the     *)
(* first one is the match re takes.  Cursor p stands before s[p].           *)
(***************************************************************************)
In(cs) == [t |-> "set", cs |-> cs]

NotIn(cs) == [t |-> "nset", cs |-> cs]

Cat(rs) == [t |-> "cat", rs |-> rs]

Alt(rs) == [t |-> "alt", rs |-> rs]

\* r{lo,hi}, greedy; hi = -1 is "no upper limit"
Rep(r, lo, hi) == [t |-> "rep", r |-> r, lo |-> lo, hi |-> hi, greedy |-> TRUE]

\* r{lo,hi}?, lazy
RepLazy(r, lo, hi) == [t |-> "rep", r |-> r, lo |-> lo, hi |-> hi, greedy |-> FALSE]

Star(r) == Rep(r, 0, -1)

Plus(r) == Rep(r, 1, -1)

Opt(r) == Rep(r, 0, 1)

\* ^ under re.M
Bol == [t |-> "bol"]

\* $ under re.M
Eol == [t |-> "eol"]

\* \b
WordB == [t |-> "wb"]

\* ^ without re.M
Bos == [t |-> "bos"]

\* $ without re.M
Eos == [t |-> "eos"]

\* (?:w1|w2|...) of literals under re.I
AnyOfI(strs) == [t |-> "alt", rs |-> [i \in DOMAIN strs |-> [t |-> "lit", cs |-> Chars(strs[i]), ci |-> TRUE]]]

\* a literal, case-sensitive
Lit(str) == [t |-> "lit", cs |-> Chars(str), ci |-> FALSE]

\* a literal under re.I
LitI(str) == [t |-> "lit", cs |-> Chars(str), ci |-> TRUE]

IsWordAt(s, p) == p >= 1 /\ p <= Len(s) /\ s[p] \in WordCh

RECURSIVE ReEnds(_, _, _)
RECURSIVE ReEndsAll(_, _, _)
RECURSIVE ReCat(_, _, _, _)
RECURSIVE ReAlt(_, _, _, _)
RECURSIVE ReRep(_, _, _, _, _, _)
RECURSIVE ReRepAll(_, _, _, _, _, _)

ReEnds(re, s, p) ==
    CASE re.t = "set"  -> IF p <= Len(s) /\ s[p] \in re.cs THEN <<p + 1>> ELSE <<>>
      [] re.t = "nset" -> IF p <= Len(s) /\ s[p] \notin re.cs THEN <<p + 1>> ELSE <<>>
      [] re.t = "lit"  -> IF /\ p + Len(re.cs) <= Len(s) + 1
                             /\ \A i \in DOMAIN re.cs :
                                   \/ s[p + i - 1] = re.cs[i]
                                   \/ re.ci /\ ToLower(s[p + i - 1]) = ToLower(re.cs[i])
                          THEN <<p + Len(re.cs)>> ELSE <<>>
      [] re.t = "cat"  -> ReCat(re.rs, 1, s, <<p>>)
      [] re.t = "alt"  -> Dedup(ReAlt(re.rs, 1, s, p))
      [] re.t = "rep"  -> ReRep(re.r, re.lo, re.hi, re.greedy, s, p)
      [] re.t = "bol"  -> IF p = 1 \/ s[p - 1] = "\n" THEN <<p>> ELSE <<>>
      [] re.t = "eol"  -> IF p = Len(s) + 1 \/ s[p] = "\n" THEN <<p>> ELSE <<>>
      [] re.t = "wb"   -> IF IsWordAt(s, p - 1) # IsWordAt(s, p) THEN <<p>> ELSE <<>>
      [] re.t = "bos"  -> IF p = 1 THEN <<p>> ELSE <<>>
      [] re.t = "eos"  -> IF p = Len(s) + 1 \/ (p = Len(s) /\ s[p] = "\n") THEN <<p>> ELSE <<>>

ReEndsAll(re, s, starts) ==
    IF starts = <<>> THEN <<>>
    ELSE IF Len(starts) = 1 THEN ReEnds(re, s, starts[1])
    ELSE ReEndsAll(re, s, SubSeq(starts, 1, Len(starts) \div 2))
             \o ReEndsAll(re, s, SubSeq(starts, Len(starts) \div 2 + 1, Len(starts)))

ReCat(rs, k, s, starts) ==
    IF k > Len(rs) \/ starts = <<>> THEN starts
    ELSE ReCat(rs, k + 1, s, Dedup(ReEndsAll(rs[k], s, starts)))

ReAlt(rs, k, s, p) ==
    IF k > Len(rs) THEN <<>> ELSE ReEnds(rs[k], s, p) \o ReAlt(rs, k + 1, s, p)

\* the width of a pattern that always consumes the same number of characters
\* in one way (a class, a literal, a sequence of classes); 0 for any other
Width(r) ==
    CASE r.t \in {"set", "nset"} -> 1
      [] r.t = "lit" -> Len(r.cs)
      [] r.t = "cat" /\ \A i \in DOMAIN r.rs : r.rs[i].t \in {"set", "nset"} -> Len(r.rs)
      [] OTHER -> 0

\* the ends of r{lo,hi} for an r of width w > 0: r matches n times in a row from
\* p on, and the repetition ends after lo..min(n, hi) of them
RunEnds(r, w, lo, hi, greedy, s, p) ==
    LET ends(top) == [i \in 1..(IF top >= lo THEN top - lo + 1 ELSE 0) |->
                         IF greedy THEN p + (top + 1 - i) * w ELSE p + (lo - 1 + i) * w]
        cap(n) == IF hi >= 0 /\ hi < n THEN hi ELSE n
        most == (Len(s) + 1 - p) \div w
    IN ends(cap(Min({k \in 0..most : k = most \/ ReEnds(r, s, p + k * w) = <<>>})))

ReRep(r, lo, hi, greedy, s, p) ==
    IF Width(r) > 0 THEN RunEnds(r, Width(r), IF lo < 0 THEN 0 ELSE lo, hi, greedy, s, p)
    ELSE LET stop == IF lo <= 0 THEN <<p>> ELSE <<>>
             order(more) == Dedup(IF greedy THEN more \o stop ELSE stop \o more)
         IN order(ReRepAll(r, lo - 1, IF hi < 0 THEN hi ELSE hi - 1, greedy, s,
                           IF hi = 0 THEN <<>>
                           ELSE SelectSeq(ReEnds(r, s, p), LAMBDA e : e > p)))

ReRepAll(r, lo, hi, greedy, s, starts) ==
    IF starts = <<>> THEN <<>>
    ELSE IF Len(starts) = 1 THEN ReRep(r, lo, hi, greedy, s, starts[1])
    ELSE ReRepAll(r, lo, hi, greedy, s, SubSeq(starts, 1, Len(starts) \div 2))
             \o ReRepAll(r, lo, hi, greedy, s,
                         SubSeq(starts, Len(starts) \div 2 + 1, Len(starts)))

NoMatch == [found |-> FALSE]

\* re.search on s from cursor p: the leftmost match, [found, s, e] with the
\* match being s[m.s .. m.e - 1]
ReSearchFrom(re, s, p) ==
    LET first(at) == IF at = {} THEN NoMatch
                     ELSE [found |-> TRUE, s |-> Min(at), e |-> ReEnds(re, s, Min(at))[1]]
    IN first({q \in p..(Len(s) + 1) : ReEnds(re, s, q) # <<>>})

ReSearch(re, s) == ReSearchFrom(re, s, 1)

RECURSIVE ReSubFrom(_, _, _, _)
\* re.sub(re, repl, s) for a pattern that matches no empty string: the text up
\* to the next match, the replacement, and the same from the end of the match
ReSubFrom(re, repl, s, p) ==
    LET sub(m) == IF ~m.found \/ m.e = m.s THEN SubSeq(s, p, Len(s))
                  ELSE SubSeq(s, p, m.s - 1) \o repl \o ReSubFrom(re, repl, s, m.e)
    IN sub(ReSearchFrom(re, s, p))

ReSub(re, repl, s) == ReSubFrom(re, repl, s, 1)

RECURSIVE PathsFrom(_, _, _, _)
\* the ways to match the parts k.. one after the other, each a sequence of the
\* cursors between the parts (paths hold the ways to match the parts before k)
PathsFrom(parts, k, s, paths) ==
    IF k > Len(parts) \/ paths = <<>> THEN paths
    ELSE LET to(path, es) == [i \in DOMAIN es |-> Append(path, es[i])]
             ext(path) == to(path, ReEnds(parts[k], s, path[Len(path)]))
         IN PathsFrom(parts, k + 1, s, Flatten([i \in DOMAIN paths |-> ext(paths[i])]))

\* re.search from cursor p of a pattern cut into parts, so that each capturing
\* group is a part: the cursors of the match, m[k] before part k and m[k + 1]
\* after it; << >> when there is no match
ReSearchParts(parts, s, p) ==
    LET first(at) == IF at = {} THEN <<>> ELSE PathsFrom(parts, 1, s, <<<<Min(at)>>>>)[1]
    IN first({q \in p..(Len(s) + 1) : ReEnds(Cat(parts), s, q) # <<>>})

RECURSIVE ReFindAll(_, _, _)
\* re.finditer, for a pattern that matches no empty string
ReFindAll(parts, s, p) ==
    LET rest(m) == IF m = <<>> \/ m[Len(m)] = m[1] THEN <<>>
                   ELSE <<m>> \o ReFindAll(parts, s, m[Len(m)])
    IN rest(ReSearchParts(parts, s, p))

\* the text that part k of the match m took; no match, no text
Part(m, k, s) == IF m = <<>> THEN <<>> ELSE SubSeq(s, m[k], m[k + 1] - 1)

\* m.group(1) of re.search for the pattern  pre(grp)suf , "" when there is no match
ReGroup1(pre, grp, suf, s) == Part(ReSearchParts(<<pre, grp, suf>>, s, 1), 2, s)

\* a or b, for two str
OrElse(a, b) == IF a # <<>> THEN a ELSE b

\* ASCII order of the characters that the sorted texts hold
AsciiSeq == <<" ", "(", ")", ",", "-", ".", "/">> \o Chars("0123456789") \o <<":">>
            \o UpperSeq \o <<"_">> \o LowerSeq

Ord(c) == CHOOSE i \in DOMAIN AsciiSeq : AsciiSeq[i] = c

\* a < b for two str
StrLess(a, b) ==
    \E k \in 1..(Len(a) + 1) :
        /\ k <= Len(b)
        /\ \A j \in 1..(k - 1) : a[j] = b[j]
        /\ k = Len(a) + 1 \/ Ord(a[k]) < Ord(b[k])

\* sorted(S) for a set S of str
SortedStrs(S) ==
    [i \in 1..Cardinality(S) |->
        CHOOSE x \in S : Cardinality({y \in S : StrLess(y, x)}) = i - 1]

RECURSIVE SplitOn(_, _)
\* str.split(sep) for a one-character sep
SplitOn(s, sep) ==
    IF \A i \in DOMAIN s : s[i] # sep THEN <<s>>
    ELSE LET k == CHOOSE i \in DOMAIN s : s[i] = sep /\ \A j \in 1..(i - 1) : s[j] # sep
         IN <<SubSeq(s, 1, k - 1)>> \o SplitOn(SubSeq(s, k + 1, Len(s)), sep)

\* str.splitlines() of a text whose only line boundary is "\n": no empty last line
SplitLines(s) ==
    IF s = <<>> THEN <<>>
    ELSE LET parts == SplitOn(s, "\n")
         IN IF parts[Len(parts)] = <<>> THEN SubSeq(parts, 1, Len(parts) - 1) ELSE parts

\* sep.join(parts)
Join(sep, parts) ==
    Flatten([i \in 1..(2 * Len(parts) - 1) |-> IF i % 2 = 1 THEN parts[(i + 1) \div 2] ELSE sep])

\* parts[:n]
Take(parts, n) == SubSeq(parts, 1, IF Len(parts) < n THEN Len(parts) ELSE n)

\* str.replace(old, "") for a one-character old
RemoveChar(s, c) == SelectSeq(s, LAMBDA x : x # c)

(***************************************************************************)
(* TextNormalizer: fer_parser._clean (claims_parser._clean is the same).    *)
(***************************************************************************)
\* \(cid:\d+\)
CidPat == Cat(<<Lit("(cid:"), Plus(In(Digit)), Lit(")")>>)

_clean(text) ==
    Strip(ReSub(Rep(In({"\n"}), 3, -1), Chars("\n\n"),          \* \n{3,}
                ReSub(Plus(In({" ", "\t"})), <<" ">>,            \* [ \t]+
                      ReSub(CidPat, <<>>, RemoveChar(text, SHY)))), WS)

(***************************************************************************)
(* MetadataExtractor: the application number.                               *)
(***************************************************************************)
Separators == {"/", ":", "-", "|"}

\* the digits of a text: re.sub(r"\D", "", value)
DigitsOf(s) == SelectSeq(s, LAMBDA c : c \in Digit)

\* a normalization that keeps the case of the letters
NormalizeAppNoKeepingCase(raw) ==
    LET value  == Strip(Strip(raw, WS), Separators)
        digits == DigitsOf(value)
    IN IF value = <<>> THEN <<>>
       ELSE IF Len(digits) >= 10 THEN digits
       ELSE Strip(SelectSeq(value, LAMBDA c : c \notin WS), Separators)

_normalize_application_no(raw) ==
    LET value  == Strip(Strip(raw, WS), Separators)
        digits == DigitsOf(value)
    IN IF value = <<>> THEN <<>>
       ELSE IF Len(digits) >= 10 THEN digits
       ELSE Strip(StrUpper(SelectSeq(value, LAMBDA c : c \notin WS)), Separators)

\* the four number shapes, each  \b( ... )\b  under re.I
AppNoShapes ==
    LET sp == Star(In(WS))
        sl == Cat(<<sp, Lit("/"), sp>>)
    IN << Rep(In(Digit), 10, 18),
          Cat(<<Rep(Cat(<<In(Digit), In(WS \cup {"-"})>>), 10, 30), In(Digit)>>),
          Cat(<<Rep(In(Digit), 1, 6), sl, Rep(In(Alpha), 2, 10), sl, Rep(In(Digit), 2, 4)>>),
          Cat(<<Rep(In(Alpha), 2, 10), sl, Rep(In(Alpha \cup Digit), 3, 20), sl,
                Rep(In(Digit), 2, 4)>>) >>

RECURSIVE SnippetFrom(_, _)
\* the loop over the shapes, from shape k on
SnippetFrom(s, k) ==
    IF k > Len(AppNoShapes) THEN <<>>
    ELSE OrElse(_normalize_application_no(ReGroup1(WordB, AppNoShapes[k], WordB, s)),
                SnippetFrom(s, k + 1))

_extract_application_no_from_snippet(snippet) ==
    IF snippet = <<>> THEN <<>>
    ELSE SnippetFrom([i \in DOMAIN snippet |-> IF snippet[i] = "|" THEN " " ELSE snippet[i]], 1)

\* Devanagari letters, U+0900 to U+097F
Devanagari == {"DEV"}

\* the four labelled captures of _extract_meta, each ending in ([^\n]+), under re.I
AppNoLabels ==
    LET sp   == Star(In(WS))
        tail == Cat(<<LitI("Application"), sp, LitI("No"), Opt(In({"/", "."})), sp,
                      Opt(Lit("/")), sp>>)
    IN << Cat(<<LitI("Application"), sp, LitI("No"), Opt(In({"/", "."})), sp,
                Opt(In({":", "-"})), sp>>),
          Cat(<<LitI("Application"), sp, LitI("Number"), sp, Opt(In({":", "-"})), sp>>),
          Cat(<<LitI("Ref"), Opt(Lit(".")), sp, LitI("No"),
                RepLazy(NotIn({"\n"}), 0, -1), tail>>),
          Cat(<<Plus(In(Devanagari)), RepLazy(NotIn({"\n"}), 0, -1), tail>>) >>

RECURSIVE LabelledFrom(_, _)
\* strategy (a): the loop over the labelled captures, from pattern k on
LabelledFrom(t, k) ==
    IF k > Len(AppNoLabels) THEN <<>>
    ELSE OrElse(_extract_application_no_from_snippet(
                    ReGroup1(AppNoLabels[k], Plus(NotIn({"\n"})), Cat(<<>>), t)),
                LabelledFrom(t, k + 1))

RECURSIVE LineScan(_)
\* strategy (b): the label looked for line by line
LineScan(lines) ==
    IF lines = <<>> THEN <<>>
    ELSE OrElse(IF ReSearch(Alt(<<Cat(<<LitI("Application"), Star(In(WS)),
                                        Alt(<<LitI("No"), LitI("Number")>>)>>),
                                  Cat(<<LitI("Ref"), Opt(Lit(".")), Star(In(WS)),
                                        LitI("No")>>)>>), Head(lines)).found
                THEN _extract_application_no_from_snippet(Head(lines)) ELSE <<>>,
                LineScan(Tail(lines)))

\* strategies (c) and (d): \b(\d{n,m})\b
BareDigits(t, n, m) == ReGroup1(WordB, Rep(In(Digit), n, m), WordB, t)

\* the mutant of MetaApplicationNo: any run of 10 to 18 digits before the
\* twelve digits of the first 30 lines
MetaApplicationNoAnyRunFirst(t) ==
    _normalize_application_no(
        OrElse(LabelledFrom(t, 1),
        OrElse(LineScan(Take(SplitLines(t), 40)),
        OrElse(BareDigits(t, 10, 18),
               BareDigits(Join(<<"\n">>, Take(SplitLines(t), 30)), 12, 12)))))

\* _extract_meta, the application number
MetaApplicationNo(t) ==
    _normalize_application_no(
        OrElse(LabelledFrom(t, 1),
        OrElse(LineScan(Take(SplitLines(t), 40)),
        OrElse(BareDigits(Join(<<"\n">>, Take(SplitLines(t), 30)), 12, 12),
               BareDigits(t, 10, 18)))))

(***************************************************************************)
(* MetadataExtractor: the applicant named in the FER text.                  *)
(***************************************************************************)
Sp == Star(In(WS))

Sp1 == Plus(In(WS))

\* .  (any character but a newline)
Dot == NotIn({"\n"})

\* the company suffixes:
\* (?:Private\s+Limited|Public\s+Limited|Pvt\.?\s*Ltd\.?|Limited|Ltd\.?|LLP|Inc\.?|
\*    Corporation|Corp\.?|Company)
CorpSuffix ==
    Alt(<< Cat(<<LitI("Private"), Sp1, LitI("Limited")>>),
           Cat(<<LitI("Public"), Sp1, LitI("Limited")>>),
           Cat(<<LitI("Pvt"), Opt(Lit(".")), Sp, LitI("Ltd"), Opt(Lit("."))>>),
           LitI("Limited"),
           Cat(<<LitI("Ltd"), Opt(Lit("."))>>),
           LitI("LLP"),
           Cat(<<LitI("Inc"), Opt(Lit("."))>>),
           LitI("Corporation"),
           Cat(<<LitI("Corp"), Opt(Lit("."))>>),
           LitI("Company") >>)

\* \(\s*s\s*\)
ParenS == Cat(<<Lit("("), Sp, LitI("s"), Sp, Lit(")")>>)

HasAlpha(s) == \E i \in DOMAIN s : s[i] \in Alpha

_looks_like_meta_boundary(line) ==
    ReSearch(Cat(<<WordB,
                   Alt(<< AnyOfI(<<"Application", "Date", "Dispatch", "Filing", "Priority",
                                   "Controller", "Examiner", "Title">>),
                          Cat(<<LitI("Ref"), Opt(Lit(".")), Sp, LitI("No")>>),
                          Cat(<<LitI("Letter"), Sp, LitI("No")>>),
                          LitI("PCT"),
                          Cat(<<LitI("Patent"), Sp1, LitI("Office")>>),
                          AnyOfI(<<"Report", "FER", "Claim">>) >>),
                   WordB>>), line).found

\* the first non-empty str of a sequence, "" when there is none
FirstNonEmpty(cs) ==
    LET pick(hits) == IF hits = {} THEN <<>> ELSE cs[Min(hits)]
    IN pick({i \in DOMAIN cs : cs[i] # <<>>})

\* ^(?:Name\s+and\s+Address\s+of\s+the\s+Applicant|Applicants?\s*(?:\(\s*s\s*\))?|
\*     Applicant\s*(?:\(\s*s\s*\))?)\s*[:\-]?\s*
ApplicantLabel ==
    Cat(<<Bos,
          Alt(<< Cat(<<LitI("Name"), Sp1, LitI("and"), Sp1, LitI("Address"), Sp1,
                       LitI("of"), Sp1, LitI("the"), Sp1, LitI("Applicant")>>),
                 Cat(<<LitI("Applicant"), Opt(LitI("s")), Sp, Opt(ParenS)>>),
                 Cat(<<LitI("Applicant"), Sp, Opt(ParenS)>>) >>),
          Sp, Opt(In({":", "-"})), Sp>>)

\* ^Name\s+Nationality\s+Address\s*
NameColumns == Cat(<<Bos, LitI("Name"), Sp1, LitI("Nationality"), Sp1, LitI("Address"), Sp>>)

\* \s*(?:Request|Exam(?:ination)?|PCT|Date|Filing|Priority|Controller|Examiner)\b.*$
RequestTail ==
    Cat(<<Sp,
          Alt(<< LitI("Request"),
                 Cat(<<LitI("Exam"), Opt(LitI("ination"))>>),
                 AnyOfI(<<"PCT", "Date", "Filing", "Priority", "Controller", "Examiner">>) >>),
          WordB, Star(Dot), Eos>>)

\* \s*(?:Nationality|Address)\s*[:\-].*$
AddressTail ==
    Cat(<<Sp, AnyOfI(<<"Nationality", "Address">>), Sp, In({":", "-"}), Star(Dot), Eos>>)

\* \s*The\s+following\s+specification\b.*$
FollowingTail ==
    Cat(<<Sp, LitI("The"), Sp1, LitI("following"), Sp1, LitI("specification"), WordB,
          Star(Dot), Eos>>)

\* x[:m.end()].strip(" ,;.") where m_suffix matches, x otherwise
UpToSuffix(x, m) == IF m.found THEN Strip(SubSeq(x, 1, m.e - 1), {" ", ",", ";", "."}) ELSE x

\* x cut after the first company suffix
SuffixCut(x) == UpToSuffix(x, ReSearch(Cat(<<WordB, CorpSuffix, WordB>>), x))

\* x where it has a letter, "" otherwise
NamedOrEmpty(x) == IF HasAlpha(x) THEN x ELSE <<>>

\* _normalize_applicant_name after the first strip
NormalizedStripped(x) ==
    IF x = <<>> THEN <<>>
    ELSE NamedOrEmpty(Strip(SuffixCut(
             Strip(ReSub(FollowingTail, <<>>,
             Strip(ReSub(AddressTail, <<>>,
             Strip(ReSub(RequestTail, <<>>,
                   ReSub(NameColumns, <<>>,
                   ReSub(Cat(<<Bos, ParenS, Sp>>), <<>>,
                   ReSub(ApplicantLabel, <<>>,
                   ReSub(CidPat, <<>>,
                   ReSub(Sp1, <<" ">>, x)))))), WS)), WS)), WS)),
             {" ", ",", ";", ".", "|"}))

_normalize_applicant_name(text) ==
    NormalizedStripped(Strip([i \in DOMAIN text |-> IF text[i] = "|" THEN " " ELSE text[i]],
                             {" ", "/", ":", ";", ",", ".", "-", "|"}))

RECURSIVE FollowingLines(_, _)
\* the loop over the lines after an "Applicant" line: the parts collected
FollowingLines(nxts, parts) ==
    IF nxts = <<>> THEN parts
    ELSE LET s == Strip(Head(nxts), {" ", "/", ":", ";", "-"})
         IN IF s = <<>> THEN (IF parts # <<>> THEN parts ELSE FollowingLines(Tail(nxts), parts))
            ELSE IF ~HasAlpha(s) THEN FollowingLines(Tail(nxts), parts)
            ELSE IF _looks_like_meta_boundary(s) THEN parts
            ELSE IF ReSearch(Cat(<<WordB, CorpSuffix, WordB>>),
                             Join(<<" ">>, Append(parts, s))).found
                 THEN Append(parts, s)
            ELSE FollowingLines(Tail(nxts), Append(parts, s))

\* the candidate an "Applicant" line i gives
ApplicantAtLine(lines, i) ==
    LET first(g) == IF g # <<>> THEN <<g>> ELSE <<>>
    IN _normalize_applicant_name(Join(<<" ">>,
           FollowingLines(SubSeq(lines, i + 1, IF Len(lines) < i + 5 THEN Len(lines) ELSE i + 5),
                          \* \bApplicant\b(?:\s*/\s*[DEV]+)?\s*[:\-]?\s*(.*)$
                          first(Strip(ReGroup1(Cat(<<WordB, LitI("Applicant"), WordB,
                                                     Opt(Cat(<<Sp, Lit("/"), Sp,
                                                               Plus(In(Devanagari))>>)),
                                                     Sp, Opt(In({":", "-"})), Sp>>),
                                               Star(Dot), Eos, lines[i]), WS)))))

_extract_applicant_from_text(text) ==
    LET long(c) == IF Len(c) > 3 THEN c ELSE <<>>
        byLine(lines) ==
            FirstNonEmpty([i \in DOMAIN lines |->
                IF ReSearch(Cat(<<WordB, LitI("Applicant"), WordB>>), lines[i]).found
                THEN long(ApplicantAtLine(lines, i)) ELSE <<>>])
        stripped(raw) == [i \in DOMAIN raw |-> Strip(raw[i], WS)]
    IN OrElse(byLine(stripped(SplitLines(text))),
       \* (?:^|\n)\s*Applicant\s*[:\-]\s*(.+?)(?:\n|$)   under re.I | re.M
       OrElse(long(_normalize_applicant_name(
                  ReGroup1(Cat(<<Alt(<<Bol, Lit("\n")>>), Sp, LitI("Applicant"), Sp,
                                 In({":", "-"}), Sp>>),
                           RepLazy(Dot, 1, -1), Alt(<<Lit("\n"), Eol>>), text))),
       \* Applicant\s*/\s*[DEV]+\s*[:\-]?\s*(.+?)(?:\n|$)
              long(_normalize_applicant_name(
                  ReGroup1(Cat(<<LitI("Applicant"), Sp, Lit("/"), Sp, Plus(In(Devanagari)), Sp,
                                 Opt(In({":", "-"})), Sp>>),
                           RepLazy(Dot, 1, -1), Alt(<<Lit("\n"), Eol>>), text)))))

(***************************************************************************)
(* MetadataExtractor: the dates and the names; _extract_meta.               *)
(***************************************************************************)
\* [0-9]{2}[-/][0-9]{2}[-/][0-9]{4}
DatePat ==
    Cat(<<In(Digit), In(Digit), In({"-", "/"}), In(Digit), In(Digit), In({"-", "/"}),
          In(Digit), In(Digit), In(Digit), In(Digit)>>)

\* _first_match for a pattern  pre(grp)suf
_first_match(pre, grp, suf, text) == Strip(ReGroup1(pre, grp, suf, text), WS)

_first_date(text) ==
    LET whole(m) == IF m.found THEN SubSeq(text, m.s, m.e - 1) ELSE <<>>
    IN whole(ReSearch(DatePat, text))

\* Date\s*of\s*Filing | Filing\s*Date
FilingKey(bounded) ==
    LET b == IF bounded THEN WordB ELSE Cat(<<>>)
    IN Alt(<< Cat(<<b, LitI("Date"), Sp, LitI("of"), Sp, LitI("Filing"), b>>),
              Cat(<<b, LitI("Filing"), Sp, LitI("Date"), b>>) >>)

\* _extract_meta, the filing date
MetaFilingDate(t) ==
    LET lines == SplitLines(t)
        from(i) == OrElse(_first_date(lines[i]),
                          _first_date(Join(<<" ">>, SubSeq(lines, i,
                              IF Len(lines) < i + 2 THEN Len(lines) ELSE i + 2))))
    IN OrElse(FirstNonEmpty([i \in 1..(IF Len(lines) < 120 THEN Len(lines) ELSE 120) |->
                  IF ReSearch(FilingKey(TRUE), lines[i]).found THEN from(i) ELSE <<>>]),
              _first_match(Cat(<<FilingKey(FALSE), Sp, Opt(In({":", "-"})), Sp>>),
                           DatePat, Cat(<<>>), t))

\* [A-Z][A-Za-z .]+  under re.I
PersonName == Cat(<<In(Alpha), Plus(In(Alpha \cup {" ", "."}))>>)

\* _extract_meta, the controller
MetaController(t) ==
    OrElse(_first_match(Cat(<<Lit("\n"), Sp>>), PersonName,
                        Cat(<<Sp, Lit("\n"), Sp, LitI("Controller"), Sp1, LitI("of"), Sp1,
                              LitI("Patents"), WordB>>), <<"\n">> \o t),
           _first_match(Cat(<<Alt(<< Cat(<<LitI("Name"), Sp, LitI("of"), Sp, LitI("the"), Sp,
                                           LitI("Controller")>>),
                                     Cat(<<LitI("Controller"), RepLazy(Dot, 0, -1),
                                           LitI("Name")>>) >>),
                              Sp, Opt(In({":", "-"})), Sp>>), PersonName, Cat(<<>>), t))

_extract_meta(text) ==
    [ application_no    |-> MetaApplicationNo(text),
      filing_date       |-> MetaFilingDate(text),
      fer_dispatch_date |->
          _first_match(Cat(<<LitI("Date"), Sp, LitI("of"), Sp, LitI("Dispatch"),
                             Opt(LitI("/Email")), Sp, Opt(In({":", "-"})), Sp>>),
                       DatePat, Cat(<<>>), text),
      applicant         |-> _extract_applicant_from_text(text),
      title             |-> <<>>,
      controller_name   |-> MetaController(text),
      examiner_name     |->
          _first_match(Cat(<<LitI("Name"), Sp, LitI("of"), Sp, LitI("the"), Sp,
                             LitI("Examiner"), Sp, Opt(In({":", "-"})), Sp>>),
                       PersonName, Cat(<<>>), text),
      reply_deadline    |->
          _first_match(Cat(<<LitI("Last"), Sp, LitI("date"), Sp, LitI("for"), Sp,
                             LitI("filing"), Sp, LitI("response"),
                             Opt(Cat(<<Sp, LitI("to"), Sp, LitI("the"), Sp, LitI("Examination"),
                                       Sp, LitI("Report")>>)),
                             Sp, Opt(In({":", "-"})), Sp>>),
                       DatePat, Cat(<<>>), text) ]

(***************************************************************************)
(* PriorArtExtractor, ObjectionSegmenter and the FER parse; fer_parser.py.  *)
(***************************************************************************)
\* Python's None and a Python list, for the fields whose default is None
PyNone == [type |-> "NoneType"]

PyList(items) == [type |-> "list", items |-> items]

\* FerParseResult(), every field at its default
FerParseResult ==
    [ application_no |-> <<>>, filing_date |-> <<>>, fer_dispatch_date |-> <<>>,
      applicant |-> <<>>, title |-> <<>>, controller_name |-> <<>>,
      examiner_name |-> <<>>, reply_deadline |-> <<>>,
      prior_arts |-> PyNone, objections |-> PyNone ]

\* the en dash U+2013
NDash == "NDASH"

\* PART\s*[-–]\s*III, the dash being a hyphen or an en dash
PartIII == Cat(<<LitI("PART"), Sp, In({"-", NDash}), Sp, LitI("III")>>)

\* FORMAL\s+REQUIREMENTS
FormalReq == Cat(<<LitI("FORMAL"), Sp1, LitI("REQUIREMENTS")>>)

_extract_prior_arts(text) ==
    LET arts(ms) ==
            LET lab(i) == StrUpper(Part(ms[i], 2, text))
                first(l) == ms[Min({i \in DOMAIN ms : lab(i) = l})]
                art(l) == [label |-> l, docno |-> Part(first(l), 4, text),
                           pub_date |-> Part(first(l), 6, text)]
                sorted(labels) == [k \in DOMAIN labels |-> art(labels[k])]
            IN sorted(SortedStrs({lab(i) : i \in DOMAIN ms}))
    IN arts(ReFindAll(<< WordB,
                         Cat(<<LitI("D"), Rep(In(Digit), 1, 3)>>),
                         Cat(<<Sp, In({":", "-"}), Sp>>),
                         Cat(<<In(Alpha), In(Alpha), Rep(In(Alpha \cup Digit), 4, -1)>>),
                         Cat(<<Sp, Opt(Alt(<< Lit("("),
                                              Cat(<<LitI("Pub"), Sp, LitI("Date"), Sp,
                                                    Opt(In({":", "-"})), Sp>>) >>))>>),
                         DatePat >>, text, 1))

extract_detailed_observations_block(text) ==
    LET obs == <<LitI("Detailed"), Sp1, LitI("observations"), Sp1, LitI("on"), Sp1,
                 LitI("the"), Sp1, LitI("requirements"), Sp1, LitI("under"), Sp1,
                 LitI("the"), Sp1, LitI("Act")>>
        eps == << Cat(<<PartIII, Sp, In({":", "-"}), Sp, LitI("FORMAL")>>), PartIII, FormalReq >>
        start(m) == IF m.found THEN {m.s} ELSE {}
        upTo(tail, ends) == Strip(SubSeq(tail, 1, Min(ends \cup {Len(tail) + 1}) - 1), WS)
        cut(tail) == upTo(tail, UNION {start(ReSearch(eps[k], tail)) : k \in DOMAIN eps})
        from(t, m) == IF m.found THEN cut(SubSeq(t, m.s, Len(t))) ELSE <<>>
        either(t, mB) == IF mB.found THEN from(t, mB) ELSE from(t, ReSearch(Cat(obs), t))
        block(t) == either(t, ReSearch(Cat(<<LitI("B"), Lit("."), Sp>> \o obs), t))
    IN block(_clean(text))

\* a normalization that leaves the hyphen of NON-PATENTABILITY
NormalizeHeadingKeepingHyphen(raw) ==
    LET scope == Cat(<<LitI("SCOPE"),
                       Opt(Cat(<<Sp1, LitI("OF"), Opt(Cat(<<Sp1, LitI("THE")>>)), Sp1,
                                 LitI("CLAIM"), Opt(LitI("S"))>>)), Eos>>)
        startswith(h, pre) == Len(h) >= Len(pre) /\ SubSeq(h, 1, Len(pre)) = pre
        canonical(h) ==
            IF ReEnds(scope, h, 1) # <<>> THEN Chars("SCOPE")
            ELSE IF \/ startswith(h, Chars("OTHER REQUIREMENT"))
                    \/ startswith(h, Chars("OTHERS REQUIREMENT"))
                 THEN Chars("OTHERS REQUIREMENTS")
                 ELSE h
    IN canonical(Strip(ReSub(Plus(In(WS)), <<" ">>, StrUpper(raw)), WS))

_normalize_heading(raw) ==
    LET scope == Cat(<<LitI("SCOPE"),
                       Opt(Cat(<<Sp1, LitI("OF"), Opt(Cat(<<Sp1, LitI("THE")>>)), Sp1,
                                 LitI("CLAIM"), Opt(LitI("S"))>>)), Eos>>)
        startswith(h, pre) == Len(h) >= Len(pre) /\ SubSeq(h, 1, Len(pre)) = pre
        canonical(h) ==
            IF ReEnds(scope, h, 1) # <<>> THEN Chars("SCOPE")
            ELSE IF \/ startswith(h, Chars("OTHER REQUIREMENT"))
                    \/ startswith(h, Chars("OTHERS REQUIREMENT"))
                 THEN Chars("OTHERS REQUIREMENTS")
                 ELSE h
    IN canonical(ReSub(Lit("NON-PATENTABILITY"), Chars("NON PATENTABILITY"),
                       Strip(ReSub(Plus(In(WS)), <<" ">>, StrUpper(raw)), WS)))

\* heading_pat, the vocabulary of the segmenter
HeadingPat ==
    Alt(<< LitI("NOVELTY"), LitI("INVENTIVE STEP"),
           Cat(<<LitI("NON"), In(WS \cup {"-"}), LitI("PATENTABILITY")>>),
           LitI("REGARDING CLAIMS"), LitI("SUFFICIENCY OF DISCLOSURE"),
           LitI("CLARITY AND CONCISENESS"), LitI("DEFINITIVENESS"),
           Cat(<<LitI("SCOPE"),
                 Opt(Cat(<<Sp1, LitI("OF"), Opt(Cat(<<Sp1, LitI("THE")>>)), Sp1,
                           LitI("CLAIM"), Opt(LitI("S"))>>))>>),
           Cat(<<LitI("OTHER"), Opt(LitI("S")), Sp1, LitI("REQUIREMENT"), Opt(LitI("S"))>>) >>)

\* the mutant of _split_objections: the parts of empty body are kept
SplitObjectionsKeepingEmpty(text) ==
    LET before(t, m) == IF m.found THEN SubSeq(t, 1, m.s - 1) ELSE t
        end(t, matches, i) == IF i < Len(matches) THEN matches[i + 1][1] ELSE Len(t) + 1
        parts(t, matches) ==
            SelectSeq([i \in DOMAIN matches |->
                          [head |-> _normalize_heading(Part(matches[i], 2, t)),
                           body |-> Strip(SubSeq(t, matches[i][Len(matches[i])],
                                                 end(t, matches, i) - 1), WS)]],
                      LAMBDA x : TRUE)
        \* (?im)^\s*(?:\(\d+\)\.)?\s*/?\s*{heading_pat}\s*[:\-]?\s*$ , then
        \* (?i){heading_pat}\s*:  when the first has no match
        split(t) ==
            parts(t, OrElse(ReFindAll(<< Cat(<<Bol, Sp,
                                               Opt(Cat(<<Lit("("), Plus(In(Digit)), Lit(").")>>)),
                                               Sp, Opt(Lit("/")), Sp>>),
                                         HeadingPat,
                                         Cat(<<Sp, Opt(In({":", "-"})), Sp, Eol>>) >>, t, 1),
                            ReFindAll(<<Cat(<<>>), HeadingPat, Cat(<<Sp, Lit(":")>>)>>, t, 1)))
        segment(t) == IF t = <<>> THEN <<>>
                      ELSE split(before(t, ReSearch(Alt(<<PartIII, FormalReq>>), t)))
    IN segment(_clean(text))

\* the mutant of _split_objections: the text is not cut at the formal requirements
SplitObjectionsPastFormal(text) ==
    LET before(t, m) == IF m.found THEN SubSeq(t, 1, m.s - 1) ELSE t
        end(t, matches, i) == IF i < Len(matches) THEN matches[i + 1][1] ELSE Len(t) + 1
        parts(t, matches) ==
            SelectSeq([i \in DOMAIN matches |->
                          [head |-> _normalize_heading(Part(matches[i], 2, t)),
                           body |-> Strip(SubSeq(t, matches[i][Len(matches[i])],
                                                 end(t, matches, i) - 1), WS)]],
                      LAMBDA x : x.body # <<>>)
        \* (?im)^\s*(?:\(\d+\)\.)?\s*/?\s*{heading_pat}\s*[:\-]?\s*$ , then
        \* (?i){heading_pat}\s*:  when the first has no match
        split(t) ==
            parts(t, OrElse(ReFindAll(<< Cat(<<Bol, Sp,
                                               Opt(Cat(<<Lit("("), Plus(In(Digit)), Lit(").")>>)),
                                               Sp, Opt(Lit("/")), Sp>>),
                                         HeadingPat,
                                         Cat(<<Sp, Opt(In({":", "-"})), Sp, Eol>>) >>, t, 1),
                            ReFindAll(<<Cat(<<>>), HeadingPat, Cat(<<Sp, Lit(":")>>)>>, t, 1)))
        segment(t) == IF t = <<>> THEN <<>>
                      ELSE split(t)
    IN segment(_clean(text))

\* the mutant of _split_objections: the text is split at "<HEADING>:" alone
SplitObjectionsLenientOnly(text) ==
    LET before(t, m) == IF m.found THEN SubSeq(t, 1, m.s - 1) ELSE t
        end(t, matches, i) == IF i < Len(matches) THEN matches[i + 1][1] ELSE Len(t) + 1
        parts(t, matches) ==
            SelectSeq([i \in DOMAIN matches |->
                          [head |-> _normalize_heading(Part(matches[i], 2, t)),
                           body |-> Strip(SubSeq(t, matches[i][Len(matches[i])],
                                                 end(t, matches, i) - 1), WS)]],
                      LAMBDA x : x.body # <<>>)
        \* (?i){heading_pat}\s*:
        split(t) ==
            parts(t, ReFindAll(<<Cat(<<>>), HeadingPat, Cat(<<Sp, Lit(":")>>)>>, t, 1))
        segment(t) == IF t = <<>> THEN <<>>
                      ELSE split(before(t, ReSearch(Alt(<<PartIII, FormalReq>>), t)))
    IN segment(_clean(text))

\* the (head, body) pairs, in the order of the text
_split_objections(text) ==
    LET before(t, m) == IF m.found THEN SubSeq(t, 1, m.s - 1) ELSE t
        end(t, matches, i) == IF i < Len(matches) THEN matches[i + 1][1] ELSE Len(t) + 1
        parts(t, matches) ==
            SelectSeq([i \in DOMAIN matches |->
                          [head |-> _normalize_heading(Part(matches[i], 2, t)),
                           body |-> Strip(SubSeq(t, matches[i][Len(matches[i])],
                                                 end(t, matches, i) - 1), WS)]],
                      LAMBDA x : x.body # <<>>)
        \* (?im)^\s*(?:\(\d+\)\.)?\s*/?\s*{heading_pat}\s*[:\-]?\s*$ , then
        \* (?i){heading_pat}\s*:  when the first has no match
        split(t) ==
            parts(t, OrElse(ReFindAll(<< Cat(<<Bol, Sp,
                                               Opt(Cat(<<Lit("("), Plus(In(Digit)), Lit(").")>>)),
                                               Sp, Opt(Lit("/")), Sp>>),
                                         HeadingPat,
                                         Cat(<<Sp, Opt(In({":", "-"})), Sp, Eol>>) >>, t, 1),
                            ReFindAll(<<Cat(<<>>), HeadingPat, Cat(<<Sp, Lit(":")>>)>>, t, 1)))
        segment(t) == IF t = <<>> THEN <<>>
                      ELSE split(before(t, ReSearch(Alt(<<PartIII, FormalReq>>), t)))
    IN segment(_clean(text))

_sections_from_text(body) ==
    LET letter == In(Alpha)
        num == Plus(In(Digit))
        paren(r) == Cat(<<Lit("("), r, Lit(")")>>)
        texts(ms, k) == {Part(ms[i], k, body) : i \in DOMAIN ms}
        all(parts, k) == texts(ReFindAll(parts, body, 1), k)
    IN SortedStrs(
           \* \b(\d+\(\d+\)\([a-z]\)|\d+\([a-z]\)|\d+\(\d+\))\b
           all(<<WordB, Alt(<< Cat(<<num, paren(num), paren(letter)>>),
                               Cat(<<num, paren(letter)>>),
                               Cat(<<num, paren(num)>>) >>), WordB>>, 2)
           \* \b(3\([a-z]\))\b
           \cup all(<<WordB, Cat(<<Lit("3"), paren(letter)>>), WordB>>, 2)
           \* \bRule\s*\d+\s*\(?\d*\)?
           \cup {Strip(x, WS) :
                   x \in all(<<Cat(<<WordB, LitI("Rule"), Sp, num, Sp, Opt(Lit("(")),
                                     Star(In(Digit)), Opt(Lit(")"))>>)>>, 1)})

\* str.capitalize: the first character upper-cased and the others lower-cased
StrCapitalize(s) == [i \in DOMAIN s |-> IF i = 1 THEN ToUpper(s[i]) ELSE ToLower(s[i])]

\* str.title: a letter is upper-cased after a non-letter and lower-cased after a letter
StrTitle(s) ==
    [i \in DOMAIN s |-> IF i > 1 /\ s[i - 1] \in Alpha THEN ToLower(s[i]) ELSE ToUpper(s[i])]

\* parse_fer_pdf on the text that read_pdf_text returns for the file
parse_fer_pdf(raw) ==
    LET \* Claim\(s\)\s*\(([^)]+)\)  or else  Claims?\s*[:\-]?\s*([0-9,\-\s]+)
        claims(body) ==
            OrElse(_first_match(Cat(<<LitI("Claim(s)"), Sp, Lit("(")>>),
                                Plus(NotIn({")"})), Lit(")"), body),
                   _first_match(Cat(<<LitI("Claim"), Opt(LitI("s")), Sp, Opt(In({":", "-"})),
                                      Sp>>),
                                Plus(In(Digit \cup {",", "-"} \cup WS)), Cat(<<>>), body))
        objection(i, split, arts) ==
            [ number     |-> i,
              heading    |-> StrTitle(split.head),
              body       |-> Strip(split.body, WS),
              sections   |-> _sections_from_text(split.body),
              claims     |-> claims(split.body),
              prior_arts |-> arts ]
        result(meta, arts, splits) ==
            [ application_no    |-> meta.application_no,
              filing_date       |-> meta.filing_date,
              fer_dispatch_date |-> meta.fer_dispatch_date,
              applicant         |-> meta.applicant,
              title             |-> meta.title,
              controller_name   |-> meta.controller_name,
              examiner_name     |-> meta.examiner_name,
              reply_deadline    |-> meta.reply_deadline,
              prior_arts        |-> PyList(arts),
              objections        |-> PyList([i \in DOMAIN splits |->
                                               objection(i, splits[i], arts)]) ]
        parse(text) ==
            result(_extract_meta(text), _extract_prior_arts(text),
                   _split_objections(OrElse(extract_detailed_observations_block(text), text)))
    IN parse(_clean(raw))

\* ------------------------------------------------------------------------
\* SpecClean: the normalizer applied to a text, then to its own output.
MaxCleanFrags == 3

CleanFrags == { Chars("(cid:1)"), Chars("(cid:"), Chars("2)"), Chars(" "), Chars("\t"),
                Chars("\n"), Chars("a"), <<SHY>> }

CleanInputs ==
    { Flatten(f) : f \in UNION { [1..n -> CleanFrags] : n \in 0..MaxCleanFrags } }

InitClean == pc = "raw" /\ input \in CleanInputs /\ out = <<>>

\* text = _clean(raw)
Normalize ==
    /\ pc = "raw"
    /\ out' = <<_clean(input)>>
    /\ pc' = "normalized"
    /\ UNCHANGED input

\* _clean applied to the already-normalized text
NormalizeAgain ==
    /\ pc = "normalized"
    /\ out' = Append(out, _clean(out[1]))
    /\ pc' = "renormalized"
    /\ UNCHANGED input

NextClean == Normalize \/ NormalizeAgain

SpecClean == InitClean /\ [][NextClean]_vars

\* C1: normalizing an already-normalized text returns it unchanged,
\* clean(clean(x)) = clean(x) for every input x.
C1_CleanIdempotent == pc = "renormalized" => out[2] = out[1]

\* ------------------------------------------------------------------------
\* SpecMeta: the metadata extractor on a labelled application-number line.
\* ------------------------------------------------------------------------
MaxAppNoParts == 4

\* the labels of the line and the parts of the value, which "/" joins
AppNoLabelTexts == {Chars("Application No.: "), Chars("Application No./ "),
                    Chars("Application Number - ")}

AppNoParts == {Chars("20"), Chars("1234"), Chars("CHE"), Chars("che"), Chars("2019")}

RECURSIVE AppNoValues(_)
AppNoValues(n) ==
    IF n = 1 THEN AppNoParts
    ELSE AppNoValues(n - 1)
         \cup {v \o <<"/">> \o q : v \in AppNoValues(n - 1), q \in AppNoParts}

MetaInputs ==
    {l \o v : l \in AppNoLabelTexts,
              v \in AppNoValues(MaxAppNoParts)
                      \cup {Chars("201941012345"), Chars("2 0 1 9 4 1 0 1 2 3 4 5")}}

InitMeta == pc = "text" /\ input \in MetaInputs /\ out = <<>>

ExtractMeta ==
    /\ pc = "text"
    /\ out' = _extract_meta(input)
    /\ pc' = "meta"
    /\ UNCHANGED input

NextMeta == ExtractMeta

SpecMeta == InitMeta /\ [][NextMeta]_vars

\* the value that follows the label of the line
LabelledValue(t) ==
    LET l == CHOOSE x \in AppNoLabelTexts : SubSeq(t, 1, Len(x)) = x
    IN SubSeq(t, Len(l) + 1, Len(t))

AllDigits(a) == a # <<>> /\ \A i \in DOMAIN a : a[i] \in Digit

\* x occurs in t as a contiguous part
Occurs(x, t) == \E i \in 1..(Len(t) - Len(x) + 1) : SubSeq(t, i, i + Len(x) - 1) = x

RECURSIVE PyInt(_)
\* int(ds) for a text of decimal digits
PyInt(ds) ==
    IF ds = <<>> THEN 0
    ELSE 10 * PyInt(SubSeq(ds, 1, Len(ds) - 1))
         + (CHOOSE d \in 0..9 : Chars("0123456789")[d + 1] = ds[Len(ds)])

\* (?im)^\s*(\d+)[\.\):]\s*  cut at its group
ClaimMarker == <<Cat(<<Bol, Sp>>), Plus(In(Digit)), Cat(<<In({".", ")", ":"}), Sp>>)>>

_extract_numbered_claims(amended_claims) ==
    LET claims(text, matches) ==
            LET stop(i) == IF i < Len(matches) THEN matches[i + 1][1] ELSE Len(text) + 1
                claim(i) == <<PyInt(Part(matches[i], 2, text)),
                              Strip(SubSeq(text, matches[i][1], stop(i) - 1), WS)>>
            IN SelectSeq([i \in DOMAIN matches |-> claim(i)], LAMBDA c : c[2] # <<>>)
    IN IF Strip(amended_claims, WS) = <<>> THEN <<>>
       ELSE claims(amended_claims, ReFindAll(ClaimMarker, amended_claims, 1))

\* ------------------------------------------------------------------------
\* SpecClaims: the claim extractor on a claims text of a few lines.
\* ------------------------------------------------------------------------
MaxClaimLines == 3

ClaimLines == { Chars("1. A method"), Chars("3) The method"), Chars(" 2. A device"),
                Chars("4:"), Chars("1."), Chars("of claim 1."), <<>> }

ClaimTexts ==
    { Join(<<"\n">>, ls) : ls \in UNION { [1..n -> ClaimLines] : n \in 0..MaxClaimLines } }

InitClaims == pc = "claims text" /\ input \in ClaimTexts /\ out = <<>>

\* claims = _extract_numbered_claims(amended_claims)
ExtractClaims ==
    /\ pc = "claims text"
    /\ out' = _extract_numbered_claims(input)
    /\ pc' = "claims"
    /\ UNCHANGED input

NextClaims == ExtractClaims

SpecClaims == InitClaims /\ [][NextClaims]_vars

\* the numerals of the line-anchored markers of a text, in document order: a
\* line holds a marker when digits and one of . ) : open it, after spaces or not
MarkerNumerals(text) ==
    LET lines == SplitOn(text, "\n")
        body(l) == LET at == {i \in DOMAIN l : l[i] \notin {" ", "\t"}}
                   IN IF at = {} THEN <<>> ELSE SubSeq(l, Min(at), Len(l))
        run(b) == LET stop == {i \in 1..(Len(b) + 1) : i = Len(b) + 1 \/ b[i] \notin Digit}
                  IN SubSeq(b, 1, Min(stop) - 1)
        marked(l) == /\ run(body(l)) # <<>>
                     /\ Len(body(l)) > Len(run(body(l)))
                     /\ body(l)[Len(run(body(l))) + 1] \in {".", ")", ":"}
        hits == SelectSeq(lines, marked)
    IN [i \in DOMAIN hits |-> PyInt(run(body(hits[i])))]

\* C3: the extractor returns exactly one (number, text) entry per line-anchored
\* numeral marker, in document order, the number being the captured numeral
\* (nothing renumbered, filled, sorted or dropped), and the empty list when
\* the text holds no marker.
C3_OneEntryPerMarker ==
    pc = "claims" => [i \in DOMAIN out |-> out[i][1]] = MarkerNumerals(input)

(***************************************************************************)
(* The reply generator: the display of the cited D-labels                   *)
(* (_normalize_prior_art_entries, _format_d_label_ranges,                   *)
(* _normalize_dx_range, _resolve_dx_display).                               *)
(***************************************************************************)
RECURSIVE PyStr(_)
\* str(n) for an int n >= 0
PyStr(n) ==
    IF n < 10 THEN <<Chars("0123456789")[n + 1]>>
    ELSE PyStr(n \div 10) \o <<Chars("0123456789")[(n % 10) + 1]>>

\* re.fullmatch
ReFullMatch(re, s) == \E i \in DOMAIN ReEnds(re, s, 1) : ReEnds(re, s, 1)[i] = Len(s) + 1

\* sorted(S) for a set S of int
SortedInts(S) ==
    [i \in 1..Cardinality(S) |-> CHOOSE x \in S : Cardinality({y \in S : y < x}) = i - 1]

\* the label of each kept row: rows without abstract are dropped, and a label
\* that is not D and one to three digits becomes D<position of the row>
_normalize_prior_art_entries(prior_art_entries) ==
    LET given(i) == OrElse(Strip(prior_art_entries[i].label, WS), <<"D">> \o PyStr(i))
        label(i) == IF ReFullMatch(Cat(<<Lit("D"), Rep(In(Digit), 1, 3)>>), StrUpper(given(i)))
                    THEN StrUpper(given(i)) ELSE <<"D">> \o PyStr(i)
        rows == [i \in DOMAIN prior_art_entries |->
                    [label |-> label(i), abstract |-> Strip(prior_art_entries[i].abstract, WS)]]
    IN SelectSeq(rows, LAMBDA r : r.abstract # <<>>)

RECURSIVE DRanges(_, _, _, _)
\* the loop of _format_d_label_ranges over the sorted numbers from the k-th on,
\* with the range in progress being start..prev
DRanges(nums, k, start, prev) ==
    IF k > Len(nums) THEN << <<start, prev>> >>
    ELSE IF nums[k] = prev + 1 THEN DRanges(nums, k + 1, start, nums[k])
    ELSE << <<start, prev>> >> \o DRanges(nums, k + 1, nums[k], nums[k])

\* the part of the display for the numbers a..b
DPart(r) ==
    IF r[1] = r[2] THEN <<"D">> \o PyStr(r[1])
    ELSE <<"D">> \o PyStr(r[1]) \o <<"-", "D">> \o PyStr(r[2])

\* the ranges of the numbers in the order of the labels, not sorted
FormatDLabelRangesUnsorted(labels) ==
    LET shape(l) == ReFullMatch(Cat(<<Lit("D"), Rep(In(Digit), 1, 3)>>), StrUpper(Strip(l, WS)))
        num(l)   == PyInt(Tail(StrUpper(Strip(l, WS))))
        parts(nums) == [i \in DOMAIN DRanges(nums, 2, nums[1], nums[1]) |->
                            DPart(DRanges(nums, 2, nums[1], nums[1])[i])]
    IN IF \E i \in DOMAIN labels : ~shape(labels[i])
       THEN Join(Chars(", "), SelectSeq(labels, LAMBDA x : x # <<>>))
       ELSE IF labels = <<>> THEN <<>>
       ELSE Join(Chars(", "), parts(Dedup([i \in DOMAIN labels |-> num(labels[i])])))

_format_d_label_ranges(labels) ==
    LET shape(l) == ReFullMatch(Cat(<<Lit("D"), Rep(In(Digit), 1, 3)>>), StrUpper(Strip(l, WS)))
        num(l)   == PyInt(Tail(StrUpper(Strip(l, WS))))
        parts(nums) == [i \in DOMAIN DRanges(nums, 2, nums[1], nums[1]) |->
                            DPart(DRanges(nums, 2, nums[1], nums[1])[i])]
    IN IF \E i \in DOMAIN labels : ~shape(labels[i])
       THEN Join(Chars(", "), SelectSeq(labels, LAMBDA x : x # <<>>))
       ELSE IF labels = <<>> THEN <<>>
       ELSE Join(Chars(", "), parts(SortedInts({num(labels[i]) : i \in DOMAIN labels})))

RECURSIVE DxTokens(_)
\* re.split(r"[,\n;/]+", raw), but for the empty tokens, which the caller skips
DxTokens(raw) ==
    LET seps == {",", "\n", ";", "/"}
        from == {i \in DOMAIN raw : raw[i] \notin seps}
        upto(a) == Min({i \in a..(Len(raw) + 1) : i = Len(raw) + 1 \/ raw[i] \in seps})
    IN IF from = {} THEN <<>>
       ELSE <<SubSeq(raw, Min(from), upto(Min(from)) - 1)>>
            \o DxTokens(SubSeq(raw, upto(Min(from)), Len(raw)))

_normalize_dx_range(dx_range) ==
    LET token(t) == IF ReFullMatch(Cat(<<Lit("D"), Plus(In(Digit))>>), StrUpper(Strip(t, WS)))
                    THEN StrUpper(Strip(t, WS)) ELSE Strip(t, WS)
        cleaned(tokens) == SelectSeq([i \in DOMAIN tokens |-> token(tokens[i])],
                                     LAMBDA s : s # <<>>)
    IN OrElse(Join(Chars(", "), cleaned(DxTokens(Strip(dx_range, WS)))), Chars("D1-Dn"))

_resolve_dx_display(prior_labels, dx_range) ==
    LET lbls == [i \in DOMAIN prior_labels |-> StrUpper(Strip(prior_labels[i], WS))]
        display(ls) == IF ls = <<>> THEN _normalize_dx_range(dx_range)
                       ELSE OrElse(_format_d_label_ranges(ls), Join(Chars(", "), ls))
    IN display(SelectSeq(lbls, LAMBDA x : x # <<>>))

\* ------------------------------------------------------------------------
\* SpecDx: the D-label display of a few prior-art rows.
\* ------------------------------------------------------------------------
MaxPriorArtRows == 3

PriorArtRows ==
    { [label |-> l, abstract |-> Chars("A pump.")] :
        l \in {Chars("D1"), Chars("d2"), Chars(" D3 "), Chars("D04"), Chars("D1000"), <<>>} }
    \cup { [label |-> Chars("D2"), abstract |-> Chars(" ")] }

DxInputs ==
    { [prior_art_entries |-> rows, dx_range |-> r] :
        rows \in UNION { [1..n -> PriorArtRows] : n \in 0..MaxPriorArtRows },
        r \in {Chars("D1-Dn"), Chars("d1; x")} }

InitDx == pc = "rows" /\ input \in DxInputs /\ out = <<>>

\* normalized_prior_arts, prior_labels and dx_display of _add_regarding_claims_block
ResolveDxDisplay ==
    /\ pc = "rows"
    /\ LET prior_labels(rows) == [i \in DOMAIN rows |-> rows[i].label]
           shown(labels) == [prior_labels |-> labels,
                             dx_display |-> _resolve_dx_display(labels, input.dx_range)]
       IN out' = shown(prior_labels(_normalize_prior_art_entries(input.prior_art_entries)))
    /\ pc' = "display"
    /\ UNCHANGED input

NextDx == ResolveDxDisplay

SpecDx == InitDx /\ [][NextDx]_vars

\* the display that C4 describes for a set of numbers: the maximal runs of
\* consecutive numbers, ascending, "Dn" for a run of one and "Da-Db" for a
\* longer one, joined by ", "
RunsDisplay(nums) ==
    LET runs == {r \in nums \X nums :
                    /\ \A k \in r[1]..r[2] : k \in nums
                    /\ r[1] <= r[2]
                    /\ (r[1] - 1) \notin nums /\ (r[2] + 1) \notin nums}
        nth(i) == CHOOSE r \in runs : Cardinality({q \in runs : q[1] < r[1]}) = i - 1
        show(r) == IF r[1] = r[2] THEN <<"D">> \o PyStr(r[1])
                   ELSE <<"D">> \o PyStr(r[1]) \o Chars("-D") \o PyStr(r[2])
    IN Join(Chars(", "), [i \in 1..Cardinality(runs) |-> show(nth(i))])

RECURSIVE DedupedRows(_, _)
\* deduped after the first k of the cleaned pairs
DedupedRows(cleaned_pairs, k) ==
    IF k = 0 THEN <<>>
    ELSE LET next(deduped) ==
                 IF deduped # <<>> /\ deduped[Len(deduped)] = cleaned_pairs[k] THEN deduped
                 ELSE Append(deduped, cleaned_pairs[k])
         IN next(DedupedRows(cleaned_pairs, k - 1))

RECURSIVE MergedRowsCaseSensitive(_, _)
\* a merge of the contiguous rows whose labels are equal letter for letter
MergedRowsCaseSensitive(deduped, k) ==
    IF k = 0 THEN <<>>
    ELSE LET sep(prev_rem, rem) == IF prev_rem # <<>> /\ rem # <<>> THEN <<"\n">> ELSE <<>>
             next(merged) ==
                 IF merged # <<>> /\ Strip(merged[Len(merged)][1], WS) = Strip(deduped[k][1], WS)
                 THEN [merged EXCEPT ![Len(merged)] =
                          <<@[1], Strip(@[2] \o sep(@[2], deduped[k][2]) \o deduped[k][2], WS)>>]
                 ELSE Append(merged, deduped[k])
         IN next(MergedRowsCaseSensitive(deduped, k - 1))

RECURSIVE MergedRows(_, _)
\* merged after the first k of the deduped rows
MergedRows(deduped, k) ==
    IF k = 0 THEN <<>>
    ELSE LET sep(prev_rem, rem) == IF prev_rem # <<>> /\ rem # <<>> THEN <<"\n">> ELSE <<>>
             next(merged) ==
                 IF /\ merged # <<>>
                    /\ StrLower(Strip(merged[Len(merged)][1], WS))
                           = StrLower(Strip(deduped[k][1], WS))
                 THEN [merged EXCEPT ![Len(merged)] =
                          <<@[1], Strip(@[2] \o sep(@[2], deduped[k][2]) \o deduped[k][2], WS)>>]
                 ELSE Append(merged, deduped[k])
         IN next(MergedRows(deduped, k - 1))

\* what extract_formal_requirements_rows_from_pdf returns for the cleaned pairs
FormalRowsOf(cleaned_pairs) ==
    LET merge(deduped) == MergedRows(deduped, Len(deduped))
    IN merge(DedupedRows(cleaned_pairs, Len(cleaned_pairs)))

\* ------------------------------------------------------------------------
\* SpecFormalRows: the dedupe and the merge of a few discovered rows.
\* ------------------------------------------------------------------------
MaxFormalRows == 3

FormalPairs ==
    { <<ob, rem>> : ob \in {Chars("Form 28"), Chars("FORM 28"), Chars("Form 1")},
                    rem \in {Chars("A"), Chars("B"), <<>>} }

InitFormalRows ==
    /\ pc = "cleaned pairs"
    /\ input \in UNION { [1..n -> FormalPairs] : n \in 0..MaxFormalRows }
    /\ out = <<>>

\* the dedupe, the merge and the return
MergeFormalRows ==
    /\ pc = "cleaned pairs"
    /\ out' = FormalRowsOf(input)
    /\ pc' = "rows"
    /\ UNCHANGED input

NextFormalRows == MergeFormalRows

SpecFormalRows == InitFormalRows /\ [][NextFormalRows]_vars

\* the rows that merging the maximal runs of rows of one category (whatever
\* the case of its letters) gives: the category of the first row of the run,
\* and the remarks (the non-empty ones only, if so asked) joined by newlines
RunsMerged(rows, non_empty) ==
    LET same(i, j) == StrLower(rows[i][1]) = StrLower(rows[j][1])
        heads == {i \in DOMAIN rows : i = 1 \/ ~same(i, i - 1)}
        head(n) == CHOOSE i \in heads : Cardinality({j \in heads : j < i}) = n - 1
        last(n) == IF n = Cardinality(heads) THEN Len(rows) ELSE head(n + 1) - 1
        rems(n) == [i \in 1..(last(n) - head(n) + 1) |-> rows[head(n) + i - 1][2]]
    IN [n \in 1..Cardinality(heads) |->
           <<rows[head(n)][1], Join(<<"\n">>, SelectSeq(rems(n), LAMBDA rem : ~non_empty \/ rem # <<>>))>>]

NoAdjacentSameCategory(rows) ==
    \A i \in 1..(Len(rows) - 1) : StrLower(rows[i][1]) # StrLower(rows[i + 1][1])

\* the rows without those that repeat the row before them exactly
WithoutRepeats(rows) ==
    LET at == SelectSeq([i \in DOMAIN rows |-> i], LAMBDA i : i = 1 \/ rows[i] # rows[i - 1])
    IN [n \in DOMAIN at |-> rows[at[n]]]

\* C5 as stated: adjacent rows of one category (case-insensitively) are merged
\* into one row whose remark is the newline-join of their remarks in discovery
\* order, a category that comes back after another one is not merged, and no
\* two adjacent output rows share a category.
C5_AdjacentRowsMerged ==
    pc = "rows" =>
        /\ out = RunsMerged(input, FALSE)
        /\ NoAdjacentSameCategory(out)

\* C5 amended: once the rows that repeat the row before them exactly are
\* dropped, adjacent rows of one category (case-insensitively) are merged into
\* one row whose remark is the newline-join of their non-empty remarks in
\* discovery order; a category that comes back after another one is not
\* merged, and no two adjacent output rows share a category.
C5_AdjacentRowsMergedAfterDedupe ==
    pc = "rows" =>
        /\ out = RunsMerged(WithoutRepeats(input), TRUE)
        /\ NoAdjacentSameCategory(out)
        /\ input = << <<Chars("Form 28"), Chars("A")>>, <<Chars("Form 28"), Chars("B")>> >>
               => out = << <<Chars("Form 28"), Chars("A\nB")>> >>
        /\ input = << <<Chars("Form 28"), Chars("A")>>, <<Chars("Form 1"), Chars("A")>>,
                      <<Chars("Form 28"), Chars("B")>> >> => out = input

C5_Witness ==
    /\ pc = "rows"
    /\ input = << <<Chars("FORM 28"), Chars("A")>>, <<Chars("Form 28"), <<>> >>,
                  <<Chars("Form 28"), Chars("B")>> >>
    /\ out = << <<Chars("FORM 28"), Chars("A\nB")>> >>

\* ------------------------------------------------------------------------
\* SpecParseFer: parse_fer_pdf on a report of a few headed sections, the
\* construction of a FerParseResult with its defaults, and the normalizing
\* of a heading that the segmenter matched.
\* ------------------------------------------------------------------------
MaxSections == 2

\* what may open the report: nothing, the application number, another line
OpeningLines == { <<>>, <<Chars("Application No./ CHE/1234/2019")>>,
                  <<Chars("The report follows")>> }

\* the first section of a report: its heading line and its body line
FirstSections ==
    { <<Chars("Inventive Step"), Chars("Claim(s) (1-5) lack inventive step")>>,
      <<Chars("Inventive Step"), Chars("See Claims: 1, 2-4 and Claim(s) (1-5) over D1")>>,
      <<Chars("NOVELTY:"), Chars("Claims: 1, 2-4 are not new")>>,
      <<Chars("Non-Patentability"), Chars("Claim(s) (1-5) fall under 3(k)")>>,
      <<Chars("Regarding Claims"), Chars("Claim 7 is vague")>>,
      <<Chars("Sufficiency of Disclosure"), Chars("see 10(4)(a)")>>,
      <<Chars("Clarity and Conciseness -"), Chars("Claim(s) (1-5) are long")>>,
      <<Chars("definitiveness"), Chars("Claims 2-3 are open")>>,
      <<Chars("(1). / Scope of the Claims"), Chars("Claim(s) (1-5) are broad")>>,
      <<Chars("OTHER REQUIREMENT"), Chars("Rule 13 (2) applies")>> }

\* the sections that may follow the first
MoreSections ==
    { <<Chars("Novelty"), Chars("Claims: 1, 2-4 are not new")>>,
      <<Chars("others requirements:"), Chars("file Form 3")>> }

RECURSIVE SectionLists(_)
\* the lists of 1..n sections
SectionLists(n) ==
    IF n = 1 THEN { <<s>> : s \in FirstSections }
    ELSE SectionLists(n - 1)
         \cup { Append(ss, s) : ss \in { x \in SectionLists(n - 1) : Len(x) = n - 1 },
                                s \in MoreSections }

FerTexts ==
    { Join(<<"\n">>, o \o Flatten(ss)) :
        o \in OpeningLines, ss \in {<<>>} \cup SectionLists(MaxSections) }

\* the headings that heading_pat matches, in three cases of letters
HeadingVariants ==
    LET forms == { Chars("Novelty"), Chars("Inventive Step"), Chars("Non-Patentability"),
                   Chars("Non Patentability"), Chars("Non\tPatentability"),
                   Chars("Regarding Claims"), Chars("Sufficiency of Disclosure"),
                   Chars("Clarity and Conciseness"), Chars("Definitiveness"),
                   Chars("Scope"), Chars("Scope of Claim"), Chars("Scope of Claims"),
                   Chars("Scope of the Claim"), Chars("Scope of the Claims"),
                   Chars("Scope  of\nthe Claims"), Chars("Other Requirement"),
                   Chars("Others Requirement"), Chars("Other Requirements"),
                   Chars("Others Requirements"), Chars("Others  Requirements") }
    IN forms \cup { StrUpper(f) : f \in forms } \cup { StrLower(f) : f \in forms }

InitParseFer == pc = "file" /\ input \in FerTexts /\ out = <<>>

\* parse_fer_pdf(path), the text of the file being input
ParseFer ==
    /\ pc = "file"
    /\ out' = parse_fer_pdf(input)
    /\ pc' = "parsed"
    /\ UNCHANGED input

\* FerParseResult()
Construct ==
    /\ pc = "file"
    /\ out' = FerParseResult
    /\ pc' = "default"
    /\ UNCHANGED input

\* head = _normalize_heading(m.group("head")) for a heading the pattern matched
NormalizeHeading ==
    /\ pc = "file"
    /\ \E raw \in HeadingVariants : out' = [raw |-> raw, head |-> _normalize_heading(raw)]
    /\ pc' = "heading"
    /\ UNCHANGED input

NextParseFer == ParseFer \/ Construct \/ NormalizeHeading

SpecParseFer == InitParseFer /\ [][NextParseFer]_vars

\* the heading lines of a report, in its order
HeadingLinesOf(text) ==
    SelectSeq(SplitLines(text),
              LAMBDA l : \E s \in FirstSections \cup MoreSections : s[1] = l)

\* the report of C7: the line "Application No./ CHE/1234/2019", later one
\* heading line, "Inventive Step", and a body that mentions "Claim(s) (1-5)"
IsEndToEndScenario(text) ==
    /\ \E i \in DOMAIN SplitLines(text) :
           SplitLines(text)[i] = Chars("Application No./ CHE/1234/2019")
    /\ HeadingLinesOf(text) = <<Chars("Inventive Step")>>
    /\ Occurs(Chars("Claim(s) (1-5)"), text)

CanonicalHeadings ==
    { Chars("NOVELTY"), Chars("INVENTIVE STEP"), Chars("NON PATENTABILITY"),
      Chars("REGARDING CLAIMS"), Chars("SUFFICIENCY OF DISCLOSURE"),
      Chars("CLARITY AND CONCISENESS"), Chars("DEFINITIVENESS"), Chars("SCOPE"),
      Chars("OTHERS REQUIREMENTS") }

\* the canonical heading of a variant, read off its first letters
CanonicalOf(raw) ==
    LET opens(w) == Len(raw) >= Len(w) /\ StrUpper(SubSeq(raw, 1, Len(w))) = w
    IN CHOOSE c \in CanonicalHeadings :
           \/ opens(Chars("SCOPE")) /\ c = Chars("SCOPE")
           \/ opens(Chars("NON")) /\ c = Chars("NON PATENTABILITY")
           \/ opens(Chars("OTHER")) /\ c = Chars("OTHERS REQUIREMENTS")
           \/ c = StrUpper(raw)

\* every variant of the vocabulary is normalized to its canonical heading
HeadingVariantsNormalized ==
    pc = "heading" =>
        /\ ReFullMatch(HeadingPat, out.raw)
        /\ out.head = CanonicalOf(out.raw)
        /\ out.raw \in {Chars("Scope of the Claims"), Chars("SCOPE"), Chars("scope of claims")}
               => out.head = Chars("SCOPE")
        /\ out.raw = Chars("Non-Patentability") => out.head = Chars("NON PATENTABILITY")

C9_ParseResultTotal ==
    pc \in {"parsed", "default"} =>
        /\ \A f \in {"application_no", "filing_date", "fer_dispatch_date", "applicant",
                     "title", "controller_name", "examiner_name", "reply_deadline"} :
               out[f] \in Seq(STRING)
        /\ out.prior_arts.type = "list"
        /\ out.objections.type = "list"

(***************************************************************************)
(* ApplicantResolver: fer_parser._extract_institution_name_from_block.      *)
(* It sorts set(candidates) by (number of words, length): sorted is stable, *)
(* so candidates that tie come out in the iteration order of the set, which *)
(* the hash seed of the process decides.  The model returns the set of the  *)
(* names a run can return.                                                  *)
(***************************************************************************)
\* len(x.split())
WordCount(x) == Cardinality({i \in DOMAIN x : x[i] \notin WS /\ (i = 1 \/ x[i - 1] \in WS)})

StopWords ==
    { Chars(w) : w \in
        { "name", "nationality", "address", "indian", "unit", "floor", "sector", "road",
          "street", "lane", "nagar", "building", "tower", "towers", "pin", "postcode",
          "state", "district", "city", "village", "plot", "door", "flat", "apartment",
          "block", "phase", "extension", "enclave", "no", "number", "post", "mile",
          "bengaluru", "bangalore", "hyderabad", "chennai", "karnataka", "telangana",
          "india" } }

\* suffix_pat, under re.I
InstitutionSuffix ==
    Alt(<< LitI("University"), LitI("Institute"), LitI("College"), LitI("Academy"),
           LitI("School"), Cat(<<LitI("Laborator"), Alt(<<LitI("y"), LitI("ies")>>)>>),
           LitI("Centre"), LitI("Center"), LitI("Foundation"), LitI("Trust"),
           LitI("Society"), LitI("Hospital") >>)

RECURSIVE KeptTokens(_, _, _)
\* the loop over reversed(prefix_tokens), at the k-th token, kept in hand
KeptTokens(prefix_tokens, k, kept) ==
    IF k = 0 \/ Len(kept) >= 8 THEN kept
    ELSE LET opens(s, w) == Len(s) >= Len(w) /\ SubSeq(s, 1, Len(w)) = w
             stop(low) == \/ low \in StopWords
                          \/ \E sw \in StopWords :
                                 opens(SelectSeq(low, LAMBDA c : c \in Lower), sw)
             step(tok) ==
                 IF \E i \in DOMAIN tok : tok[i] \in Digit
                 THEN IF kept # <<>> THEN kept ELSE KeptTokens(prefix_tokens, k - 1, kept)
                 ELSE IF stop(Strip(StrLower(tok), {".", ","}))
                 THEN IF kept # <<>> THEN kept ELSE KeptTokens(prefix_tokens, k - 1, kept)
                 ELSE KeptTokens(prefix_tokens, k - 1, Append(kept, Strip(tok, {".", ","})))
         IN step(prefix_tokens[k])

\* re.findall(r"[A-Za-z0-9&().'/+\-]+", prefix)
PrefixTokens(prefix, ms) == [i \in DOMAIN ms |-> Part(ms[i], 1, prefix)]

\* list(reversed(q))
Reversed(q) == [i \in DOMAIN q |-> q[Len(q) + 1 - i]]

\* the candidate of one match of suffix_pat, the kept tokens in hand: ""
\* where the loop goes on
InstitutionNamed(kept, suffix) ==
    IF kept = <<>> \/ Strip(Join(<<" ">>, Reversed(kept)), WS) = <<>> THEN <<>>
    ELSE _normalize_applicant_name(Strip(Join(<<" ">>, Reversed(kept)), WS) \o <<" ">> \o suffix)

\* the candidate of one match of suffix_pat, prefix_tokens in hand
InstitutionOfTokens(prefix_tokens, suffix) ==
    InstitutionNamed(KeptTokens(prefix_tokens, Len(prefix_tokens), <<>>), suffix)

\* the candidate of the match m of suffix_pat in s
InstitutionOfMatch(s, m, prefix) ==
    InstitutionOfTokens(
        PrefixTokens(prefix,
                     ReFindAll(<<Plus(In(Alpha \cup Digit
                                         \cup {"&", "(", ")", ".", "'", "/", "+", "-"}))>>,
                               prefix, 1)),
        Part(m, 1, s))

\* the candidates of the matches ms of suffix_pat in s, in their order
InstitutionsOfMatches(s, ms) ==
    SelectSeq([i \in DOMAIN ms |-> InstitutionOfMatch(s, ms[i], SubSeq(s, 1, ms[i][1] - 1))],
              LAMBDA c : c # <<>>)

\* candidates, in the order of the matches of suffix_pat
InstitutionCandidates(s) == InstitutionsOfMatches(s, ReFindAll(<<InstitutionSuffix>>, s, 1))

\* the key of sorted: (len(x.split()), len(x))
InstitutionKey(x) == <<WordCount(x), Len(x)>>

\* whether the key a sorts before the key b
KeyLess(a, b) == a[1] < b[1] \/ (a[1] = b[1] /\ a[2] < b[2])

\* the candidates that sorted(set(candidates), key=...) may put first, "" where
\* there is none
FirstSorted(cs) ==
    IF cs = {} THEN {<<>>}
    ELSE {c \in cs : \A d \in cs : ~KeyLess(InstitutionKey(d), InstitutionKey(c))}

\* set(candidates)
SetOf(q) == {q[i] : i \in DOMAIN q}

\* _extract_institution_name_from_block for s, the block with its whitespace
\* collapsed
InstitutionOfBlock(s) == IF s = <<>> THEN {<<>>} ELSE FirstSorted(SetOf(InstitutionCandidates(s)))

\* the names that a run may return for the block
_extract_institution_name_from_block(block) ==
    InstitutionOfBlock(Strip(ReSub(Plus(In(WS)), <<" ">>, block), WS))

\* ------------------------------------------------------------------------
\* SpecApplicantBlock: the institution extractor run on one applicant block
\* by two processes, one after the other.
\* ------------------------------------------------------------------------
MaxBlockParts == 3

BlockParts == { Chars("Abc Trust"), Chars("Xyz Trust"), Chars("National Law College,"),
                Chars("560001"), Chars("MG Road"), Chars("Dr. Rao") }

ApplicantBlocks ==
    { Join(<<" ">>, ps) : ps \in UNION { [1..n -> BlockParts] : n \in 1..MaxBlockParts } }

InitApplicantBlock == pc = "block" /\ input \in ApplicantBlocks /\ out = <<>>

\* _extract_institution_name_from_block(raw_name) in a first process
ExtractInstitution ==
    /\ pc = "block"
    /\ \E name \in _extract_institution_name_from_block(input) : out' = <<name>>
    /\ pc' = "extracted"
    /\ UNCHANGED input

\* the same call on the same block in another process
ExtractInstitutionAgain ==
    /\ pc = "extracted"
    /\ \E name \in _extract_institution_name_from_block(input) : out' = Append(out, name)
    /\ pc' = "extracted again"
    /\ UNCHANGED input

NextApplicantBlock == ExtractInstitution \/ ExtractInstitutionAgain

SpecApplicantBlock == InitApplicantBlock /\ [][NextApplicantBlock]_vars

\* C10: two runs of an extractor on the same input, in different processes
\* too, return the same result: of several applicant-name candidates that
\* tie in rank, every run chooses the same one.
C10_SameResultOnEveryRun == pc = "extracted again" => out[2] = out[1]

(***************************************************************************)
(* PriorArtAbstractExtractor: prior_art_parser._trim_words, the last step   *)
(* of each strategy of extract_prior_art_abstract_from_pdf.                 *)
(***************************************************************************)
_MAX_ABSTRACT_WORDS == 1200

\* re.sub(r"\s+", " ", s): each run of whitespace becomes one space
SubSpaces(s) ==
    SelectSeq([i \in DOMAIN s |-> IF s[i] \notin WS THEN s[i]
                                  ELSE IF i > 1 /\ s[i - 1] \in WS THEN "" ELSE " "],
              LAMBDA c : c # "")

\* re.findall(r"\S+", s)
FindAllNonSpace(s) ==
    LET runs(starts, ends) == [k \in DOMAIN starts |-> SubSeq(s, starts[k], ends[k])]
    IN runs(SelectSeq([i \in DOMAIN s |-> i],
                      LAMBDA i : s[i] \notin WS /\ (i = 1 \/ s[i - 1] \in WS)),
            SelectSeq([i \in DOMAIN s |-> i],
                      LAMBDA i : s[i] \notin WS /\ (i = Len(s) \/ s[i + 1] \in WS)))

RECURSIVE Pow2AtMost(_, _)
\* the greatest e * 2^j that is at most k
Pow2AtMost(k, e) == IF 2 * e <= k THEN Pow2AtMost(k, 2 * e) ELSE e

\* int(n * 0.35) in double arithmetic.  The double nearest 0.35 lies just
\* below it: where 0.35 * n is a whole number k (n a multiple of 20) the
\* product rounds to k, or to the double below k when k stands in the upper
\* eighth of its binade (k > 1.75 * 2^e), and int() then yields k - 1.
IntOf35Percent(n) ==
    IF n % 20 # 0 \/ n = 0 THEN (n * 35) \div 100
    ELSE LET whole(k) == IF 4 * k > 7 * Pow2AtMost(k, 1) THEN k - 1 ELSE k
         IN whole((7 * n) \div 20)

\* r"[.!?](?:\s|$)"
SentenceEnd == Cat(<<In({".", "!", "?"}), Alt(<<In(WS), Eos>>)>>)

\* the first max_words words and nothing more
TrimWordsHardCut(text, max_words) ==
    Strip(Join(<<" ">>, Take(FindAllNonSpace(Strip(SubSpaces(text), WS)), max_words)), WS)

_trim_words(text, max_words) ==
    LET rfind(s, c) == Max({-1} \cup {i - 1 : i \in {j \in DOMAIN s : s[j] = c}})
        last(cut) ==
            LET back(back_cut) ==
                    IF back_cut >= IntOf35Percent(Len(cut))
                    THEN Strip(SubSeq(cut, 1, back_cut + 1), WS)
                    ELSE cut \o <<".">>
            IN back(Max({rfind(cut, "."), rfind(cut, "!"), rfind(cut, "?")}))
        probed(cut, tail_probe) ==
            LET found(m) ==
                    IF m.found
                    THEN Strip(cut \o <<" ">> \o Strip(SubSeq(tail_probe, 1, m.e - 1), WS), WS)
                    ELSE last(cut)
            IN found(ReSearch(SentenceEnd, tail_probe))
        tailed(cut, tail_words) ==
            IF tail_words # <<>> THEN probed(cut, Strip(Join(<<" ">>, tail_words), WS))
            ELSE last(cut)
        trimmed(raw, words) ==
            IF Len(words) <= max_words THEN raw
            ELSE LET ended(cut) ==
                         IF cut # <<>> /\ cut[Len(cut)] \in {".", "!", "?"} THEN cut
                         ELSE tailed(cut, SubSeq(words, max_words + 1,
                                                 Min({Len(words), max_words + 80})))
                 IN ended(Strip(Join(<<" ">>, Take(words, max_words)), WS))
        found(raw) == trimmed(raw, FindAllNonSpace(raw))
    IN found(Strip(SubSpaces(text), WS))

\* ------------------------------------------------------------------------
\* SpecAbstract: the candidate text a strategy has collected, trimmed to the
\* abstract that the strategy returns.
\* ------------------------------------------------------------------------
MaxSentenceEnds == 2

\* the word cap of the strategy at pc
CapAt(at) ==
    IF at \in {"heading candidate", "heading abstract"} THEN _MAX_ABSTRACT_WORDS
    ELSE IF at \in {"best paragraph", "paragraph abstract"} THEN Min({_MAX_ABSTRACT_WORDS, 360})
    ELSE 160

\* a text of n words, those at the positions ends closing a sentence; the
\* lines that fall through to the last resort are upper-case headings
AbstractText(n, ends, upper) ==
    Join(<<" ">>, [i \in 1..n |-> IF i \in ends THEN IF upper THEN Chars("BB.") ELSE Chars("bb.")
                                  ELSE IF upper THEN Chars("AA") ELSE Chars("aa")])

\* texts around the cap: shorter, as long, and up to 100 words longer, with
\* sentences ending on either side of the 35% mark, at the cap, and on either
\* side of the end of the 80 words after it
AbstractTexts(cap, upper) ==
    LET marks == {(cap * 35) \div 100, (cap * 35) \div 100 + 1, cap, cap + 1, cap + 80, cap + 81}
    IN { AbstractText(c[1], c[2], upper) :
           c \in { d \in {cap - 1, cap, cap + 1, cap + 80, cap + 81, cap + 100} \X SUBSET marks :
                     /\ Cardinality(d[2]) <= MaxSentenceEnds
                     /\ \A e \in d[2] : e <= d[1] } }

InitAbstract ==
    /\ pc \in {"heading candidate", "best paragraph", "all lines"}
    /\ input \in AbstractTexts(CapAt(pc), pc = "all lines")
    /\ out = <<>>

\* _collect_candidate: return _trim_words(candidate, _MAX_ABSTRACT_WORDS)
CollectCandidate ==
    /\ pc = "heading candidate"
    /\ out' = _trim_words(input, _MAX_ABSTRACT_WORDS)
    /\ pc' = "heading abstract"
    /\ UNCHANGED input

\* _extract_best_paragraph: return _trim_words(best, min(_MAX_ABSTRACT_WORDS, 360))
ExtractBestParagraph ==
    /\ pc = "best paragraph"
    /\ out' = _trim_words(input, Min({_MAX_ABSTRACT_WORDS, 360}))
    /\ pc' = "paragraph abstract"
    /\ UNCHANGED input

\* extract_prior_art_abstract_from_pdf: abstract = _trim_words(" ".join(lines), 160)
TrimAllLines ==
    /\ pc = "all lines"
    /\ out' = _trim_words(input, 160)
    /\ pc' = "last resort abstract"
    /\ UNCHANGED input

NextAbstract == CollectCandidate \/ ExtractBestParagraph \/ TrimAllLines

SpecAbstract == InitAbstract /\ [][NextAbstract]_vars

\* a strategy has returned its abstract
AbstractReturned == pc \in {"heading abstract", "paragraph abstract", "last resort abstract"}

MaxCitations == 3

\* citation lines of a report: the labels D1, D2 and D10, a label cited again
\* with another document, and a label in lower case
CitationLines ==
    { Chars("D1: US1234567 01/01/2020"),
      Chars("D2 - EP2345678A1 (02/02/2019)"),
      Chars("D10: WO2020123456 Pub Date: 03-03-2018"),
      Chars("d2: JP9999999 04/04/2017"),
      Chars("D1 : CN1111111 05-05-2016") }

CitationTexts ==
    { Join(<<"\n">>, ls) : ls \in UNION { [1..n -> CitationLines] : n \in 0..MaxCitations } }

InitPriorArts == pc = "report" /\ input \in CitationTexts /\ out = <<>>

\* parse_fer_pdf: text = _clean(raw); arts = _extract_prior_arts(text)
ExtractPriorArts ==
    /\ pc = "report"
    /\ out' = _extract_prior_arts(_clean(input))
    /\ pc' = "prior arts"
    /\ UNCHANGED input

NextPriorArts == ExtractPriorArts

SpecPriorArts == InitPriorArts /\ [][NextPriorArts]_vars

\* the citation that a line of CitationTexts makes: the label up to the
\* separator, the first later token of six or more characters, the last date
CitedOn(line) ==
    LET toks == FindAllNonSpace(line)
        doc  == toks[Min({k \in 2..Len(toks) : Len(toks[k]) >= 6 /\ toks[k][1] \in Alpha})]
        date == Strip(toks[Len(toks)], {"(", ")"})
    IN [label |-> StrUpper(Strip(toks[1], {":"})), docno |-> doc, pub_date |-> date]

\* the number after the D of a label
LabelNumber(label) == PyInt(SubSeq(label, 2, Len(label)))

\* C11: the reference list holds at most one reference per D-label, with the
\* docno and pub_date of the label's first citation in the text, and is
\* ordered by the numeric suffix of the label (D2 before D10).
C11_ReferencesUniqueAndOrdered ==
    pc = "prior arts" =>
        LET cited == [i \in DOMAIN SplitLines(input) |-> CitedOn(SplitLines(input)[i])]
        IN /\ \A i, j \in DOMAIN out : i < j => out[i].label # out[j].label
           /\ \A i \in DOMAIN out :
                  \E k \in DOMAIN cited :
                      /\ cited[k] = out[i]
                      /\ \A h \in 1..(k - 1) : cited[h].label # out[i].label
           /\ \A i, j \in DOMAIN out :
                  i < j => LabelNumber(out[i].label) < LabelNumber(out[j].label)

(***************************************************************************)
(* ClaimSegmenter on a DOCX: claims_parser.read_docx_text, then             *)
(* _extract_amended_claims_from_text, then the reply generator's            *)
(* _extract_numbered_claims.  A paragraph is [text, numbered]: numbered     *)
(* says that _is_numbered_list_paragraph holds of it.                       *)
(***************************************************************************)
\* re.match of a pattern cut into parts: the cursors of the match at the start
\* of s, << >> when there is none
ReMatchParts(parts, s) ==
    LET first(paths) == IF paths = <<>> THEN <<>> ELSE paths[1]
    IN first(PathsFrom(parts, 1, s, <<<<1>>>>))

RECURSIVE DocxChunks(_, _, _, _)
\* the loop of read_docx_text at the k-th paragraph, chunks and auto_num in hand
DocxChunks(paragraphs, k, chunks, auto_num) ==
    IF k > Len(paragraphs) THEN chunks
    ELSE LET numeral(text, m_no) ==
                 IF m_no # <<>>
                 THEN DocxChunks(paragraphs, k + 1, Append(chunks, text),
                                 Max({auto_num, PyInt(Part(m_no, 2, text)) + 1}))
                 ELSE IF paragraphs[k].numbered
                 THEN DocxChunks(paragraphs, k + 1,
                                 Append(chunks, PyStr(auto_num) \o Chars(". ") \o text),
                                 auto_num + 1)
                 ELSE DocxChunks(paragraphs, k + 1, Append(chunks, text), auto_num)
             para(text) ==
                 IF text = <<>> THEN DocxChunks(paragraphs, k + 1, chunks, auto_num)
                 ELSE numeral(text, ReMatchParts(<<Cat(<<Bos, Sp>>), Plus(In(Digit)),
                                                   Cat(<<In({".", ")", ":"}), Sp>>)>>, text))
         IN para(Strip(paragraphs[k].text, WS))

read_docx_text(paragraphs) == Join(<<"\n">>, DocxChunks(paragraphs, 1, <<>>, 1))

\* the heading patterns that open the claims, in the order they are tried
ClaimsHeadings ==
    << Cat(<<Bol, Sp, LitI("WE"), Sp1, LitI("CLAIM"), Sp, Opt(Lit(":")), Sp, Eol>>),
       Cat(<<Bol, Sp, LitI("WE"), Sp1, LitI("CLAIM"), Sp, Opt(Lit(":")), Sp>>),
       Cat(<<Bol, Sp, LitI("CLAIM"), Opt(LitI("S")), Sp, Opt(Lit(":")), Sp, Eol>>),
       Cat(<<Bol, Sp, LitI("REGARDING"), Sp1, LitI("CLAIMS"), Sp, Opt(Lit(":")), Sp, Eol>>),
       Cat(<<WordB, LitI("We"), Sp1, LitI("Claim"), WordB, Sp, Opt(Lit(":"))>>) >>

\* end_markers
ClaimsEndMarkers ==
    << Cat(<<Bol, Sp, LitI("SUBMISSION"), Sp1, LitI("TO"), Sp1, LitI("OBJECTION"), WordB>>),
       Cat(<<Bol, Sp, LitI("FORMAL"), Sp1, LitI("REQUIREMENTS"), WordB>>),
       Cat(<<Bol, Sp, LitI("YOURS"), Sp1, LitI("FAITHFULLY"), WordB>>),
       Cat(<<Bol, Sp, LitI("ENCLOSURE"), Opt(LitI("S")), Sp, Opt(Lit(":")), Sp, Eol>>) >>

\* start_pat: (?im)^\s*(?:1[\.\):]\s*|Claim\s*1\b)
ClaimsStart ==
    Cat(<<Bol, Sp, Alt(<<Cat(<<Lit("1"), In({".", ")", ":"}), Sp>>),
                         Cat(<<LitI("Claim"), Sp, Lit("1"), WordB>>)>>)>>)

\* the text before the first end marker
UpToEndMarker(tail) ==
    LET at(ep) == LET start(m) == IF m.found THEN {m.s - 1} ELSE {}
                  IN start(ReSearch(ep, tail))
        ends == {Len(tail)} \cup UNION {at(ClaimsEndMarkers[i]) : i \in DOMAIN ClaimsEndMarkers}
    IN Strip(SubSeq(tail, 1, Min(ends)), WS)

_extract_amended_claims_from_text(raw_text) ==
    LET heads(t) == {i \in DOMAIN ClaimsHeadings : ReSearch(ClaimsHeadings[i], t).found}
        start_idx(t) == IF heads(t) = {} THEN 1 ELSE ReSearch(ClaimsHeadings[Min(heads(t))], t).e
        again(t, claims_block, m4) ==
            IF m4.found THEN UpToEndMarker(SubSeq(t, m4.s, Len(t))) ELSE claims_block
        started(t, claims_block, m3) ==
            IF m3.found THEN Strip(SubSeq(claims_block, m3.s, Len(claims_block)), WS)
            ELSE again(t, claims_block, ReSearch(ClaimsStart, t))
        block(t, claims_block) == started(t, claims_block, ReSearch(ClaimsStart, claims_block))
        cleaned(t) == IF t = <<>> THEN <<>>
                      ELSE block(t, UpToEndMarker(SubSeq(t, start_idx(t), Len(t))))
    IN cleaned(_clean(raw_text))

\* ------------------------------------------------------------------------
\* SpecDocxClaims: a claims DOCX of a few paragraphs read to numbered text,
\* cut to the amended claims, and segmented.
\* ------------------------------------------------------------------------
MaxParagraphs == 3

DocxParagraphs ==
    { [text |-> Chars(t), numbered |-> n] :
        t \in {"1. A method", "3) The method of claim 1", " 2. A device", "A system",
               "WE CLAIM:", "Yours faithfully"},
        n \in BOOLEAN }

DocxDocuments == UNION { [1..n -> DocxParagraphs] : n \in 0..MaxParagraphs }

InitDocxClaims == pc = "docx" /\ input \in DocxDocuments /\ out = <<>>

\* read_docx_text(path)
ReadDocxText ==
    /\ pc = "docx"
    /\ out' = read_docx_text(input)
    /\ pc' = "docx text"
    /\ UNCHANGED input

\* extract_amended_claims_from_docx: _extract_amended_claims_from_text of the text read
ExtractAmendedClaims ==
    /\ pc = "docx text"
    /\ out' = _extract_amended_claims_from_text(out)
    /\ pc' = "amended claims"
    /\ UNCHANGED input

\* claims = _extract_numbered_claims(amended_claims)
ExtractNumberedClaims ==
    /\ pc = "amended claims"
    /\ out' = _extract_numbered_claims(out)
    /\ pc' = "numbered claims"
    /\ UNCHANGED input

NextDocxClaims == ReadDocxText \/ ExtractAmendedClaims \/ ExtractNumberedClaims

SpecDocxClaims == InitDocxClaims /\ [][NextDocxClaims]_vars

\* each number of the sequence is greater than the one before it
StrictlyIncreasing(nums) == \A i \in 1..(Len(nums) - 1) : nums[i] < nums[i + 1]

\* C12: the numbers of the claim blocks are strictly increasing in document
\* order, in the numbered text built from a DOCX (explicit numerals mixed
\* with auto-assigned ones) and in the list that claim extraction returns.
C12_ClaimNumbersIncrease ==
    /\ pc = "docx text" => StrictlyIncreasing(MarkerNumerals(out))
    /\ pc = "numbered claims" => StrictlyIncreasing([i \in DOMAIN out |-> out[i][1]])

(***************************************************************************)
(* FormalRequirementsReconstructor, the fallback: the raw PART-III text of  *)
(* fer_parser.extract_formal_requirements_block and the table that          *)
(* reply_generator._add_formal_table builds from it and from the rows.      *)
(***************************************************************************)
extract_formal_requirements_block(text) ==
    LET start_patterns ==
            << Cat(<<PartIII, Sp, In({":", "-"}), Sp, FormalReq>>),
               Cat(<<PartIII, Rep(NotIn({"\n"}), 0, 100), FormalReq>>),
               Cat(<<Bol, Sp, FormalReq, Sp, Eol>>) >>
        end_patterns ==
            << Cat(<<LitI("PART"), Sp, In({"-", NDash}), Sp, LitI("IV")>>),
               Cat(<<LitI("DOCUMENTS"), Sp1, LitI("ON"), Sp1, LitI("RECORD")>>) >>
        cut(tail) ==
            LET at(ep) == LET start(m) == IF m.found THEN {m.s - 1} ELSE {}
                          IN start(ReSearch(ep, tail))
            IN Strip(SubSeq(tail, 1, Min({Len(tail)} \cup at(end_patterns[1])
                                                     \cup at(end_patterns[2]))), WS)
        latest(t, starts) ==
            IF starts = <<>> THEN <<>>
            ELSE LET start_match(k) == cut(SubSeq(t, starts[k][2], Len(t)))
                 IN start_match(Min({k \in DOMAIN starts :
                                       \A j \in DOMAIN starts : starts[j][1] <= starts[k][1]}))
        block(t) == latest(t, ReFindAll(<<start_patterns[1]>>, t, 1)
                              \o ReFindAll(<<start_patterns[2]>>, t, 1)
                              \o ReFindAll(<<start_patterns[3]>>, t, 1))
    IN block(ReSub(CidPat, <<>>, RemoveChar(text, SHY)))

RECURSIVE RStrip(_, _)
\* str.rstrip(chars); str.rstrip() is RStrip(s, WS)
RStrip(s, chars) ==
    IF s # <<>> /\ s[Len(s)] \in chars THEN RStrip(SubSeq(s, 1, Len(s) - 1), chars) ELSE s

_strip_hindi(text) ==
    LET line(ln) == RStrip(ReSub(Rep(In({" ", "\t"}), 2, -1), <<" ">>, ln), WS)
        lines(ls) == [i \in DOMAIN ls |-> line(ls[i])]
    IN Strip(Join(<<"\n">>, lines(SplitLines(SelectSeq(text, LAMBDA c : c \notin Devanagari)))),
             WS)

\* the rows of the table, each the texts of its three cells, the header first
_add_formal_table(fer_formal_text, fer_formal_rows) ==
    LET reply == Chars("[INSERT COMPLIANCE STATEMENT / REPLY HERE]")
        as_in_fer(raw_formal) ==
            IF raw_formal # <<>>
            THEN << <<Chars("As in FER"), _strip_hindi(raw_formal), reply>> >>
            ELSE << <<Chars("[FORMAL OBJECTION CATEGORY]"),
                      Chars("[PASTE REMARKS FROM FER HERE]"),
                      Chars("[INSERT COMPLIANCE STATEMENT HERE]")>> >>
    IN << <<Chars("Objections"), Chars("Remarks"), Chars("Our Reply")>> >>
       \o IF fer_formal_rows # <<>>
          THEN [i \in DOMAIN fer_formal_rows |->
                   <<_strip_hindi(fer_formal_rows[i][1]), _strip_hindi(fer_formal_rows[i][2]),
                     reply>>]
          ELSE as_in_fer(Strip(fer_formal_text, WS))

\* ------------------------------------------------------------------------
\* SpecFormalTable: the formal-requirements table of the reply, for a report
\* whose text is read and whose table rows were or were not reconstructed.
\* ------------------------------------------------------------------------
MaxReportLines == 3

\* final_rows of _parse_formal_rows are cut to 1200 characters
FormalRemarkCap == 1200

ReportLines ==
    { Chars("PART-III: FORMAL REQUIREMENTS"),
      Chars("FORMAL REQUIREMENTS"),
      Chars("Statement & Undertaking (Form 3) is not filed"),
      Chars("Form 28") \o <<" ", "DEV", "DEV", " ", " ">> \o Chars("is due  "),
      Chars("PART - IV: DOCUMENTS ON RECORD"),
      Chars("The report covers formal requirements and documents on record"),
      [i \in 1..(FormalRemarkCap + 50) |-> IF i % 7 = 0 THEN " " ELSE "x"] }

ReportTexts ==
    { Join(<<"\n">>, ls) : ls \in UNION { [1..n -> ReportLines] : n \in 0..MaxReportLines } }

InitFormalTable ==
    /\ pc = "fer"
    /\ input \in [fer_raw : ReportTexts,
                  formal_rows : {<<>>, << <<Chars("Form 3"), Chars("is not filed")>> >>}]
    /\ out = <<>>

\* formal_reqs = extract_formal_requirements_block(fer_raw)
ExtractFormalBlock ==
    /\ pc = "fer"
    /\ out' = extract_formal_requirements_block(input.fer_raw)
    /\ pc' = "formal text"
    /\ UNCHANGED input

\* generate_reply_docx: _add_formal_table(doc, formal_reqs_text, formal_reqs_rows)
AddFormalTable ==
    /\ pc = "formal text"
    /\ out' = [formal_reqs_text |-> out,
               table |-> _add_formal_table(out, input.formal_rows)]
    /\ pc' = "formal table"
    /\ UNCHANGED input

NextFormalTable == ExtractFormalBlock \/ AddFormalTable

SpecFormalTable == InitFormalTable /\ [][NextFormalTable]_vars

\* C13: when the PART-III section was located (its raw text is not empty)
\* and no row was reconstructed, the formal-requirements output is one
\* fallback row of category "Formal Requirements" whose remark is the raw
\* section text, capped in length; the output is never empty then.
C13_FallbackRow ==
    (pc = "formal table" /\ out.formal_reqs_text # <<>> /\ input.formal_rows = <<>>) =>
        /\ Len(out.table) = 2
        /\ out.table[2][1] = Chars("Formal Requirements")
        /\ out.table[2][2] = Take(out.formal_reqs_text, FormalRemarkCap)

(***************************************************************************)
(* Cover-sheet resolution: fer_parser.extract_title_from_cs_pdf and         *)
(* extract_applicant_from_cs_pdf.  A PDF is the sequence of its pages, a    *)
(* page [text, tables, raises]: text is what extract_text returns, tables   *)
(* what extract_tables returns, a sequence of tables (a table a sequence of *)
(* rows, a row a sequence of cell texts), and raises tells that             *)
(* extract_tables raises on the page instead of returning.                  *)
(***************************************************************************)
\* an exception in flight, where a text is expected
Raised == <<"Exception">>

\* "\n".join of the page texts
read_pdf_text(pdf) == Join(<<"\n">>, [i \in DOMAIN pdf |-> pdf[i].text])

\* re.sub(r"[ \t]+", " ", ln).strip()
CleanCellLine(ln) == Strip(ReSub(Plus(In({" ", "\t"})), <<" ">>, ln), WS)

\* the lines of a cell that are not empty once cleaned
CleanCellLines(ls) ==
    SelectSeq([i \in DOMAIN ls |-> CleanCellLine(ls[i])], LAMBDA ln : ln # <<>>)

_clean_table_cell(cell) ==
    Strip(Join(<<"\n">>, CleanCellLines(SplitLines(ReSub(CidPat, <<>>, RemoveChar(cell, SHY))))),
          WS)

\* the rows with their cells cleaned
CleanedCells(rows) ==
    [i \in DOMAIN rows |-> [j \in DOMAIN rows[i] |-> _clean_table_cell(rows[i][j])]]

\* cleaned_rows of a table: the rows that are not empty, their cells cleaned
CleanedRows(table) == CleanedCells(SelectSeq(table, LAMBDA row : row # <<>>))

\* the first element of a sequence of texts that is not empty, "" when none is
FirstText(cands) ==
    LET first(at) == IF at = {} THEN <<>> ELSE cands[Min(at)]
    IN first({i \in DOMAIN cands : cands[i] # <<>>})

\* _clean_title_line of extract_title_from_cs_pdf
_clean_title_line(s) ==
    Strip(ReSub(Sp1, <<" ">>,
                ReSub(Cat(<<Bos, Plus(In(Digit)), Sp1>>), <<>>,
                      ReSub(Cat(<<Bos, Lit("["), Rep(In(Digit), 1, 4), Lit("]"), Sp>>), <<>>,
                            ReSub(CidPat, <<>>, Strip(s, WS))))),
          {" ", ":", "-"})

\* stop_pat of extract_title_from_cs_pdf
TitleStop ==
    Cat(<< WordB,
           Alt(<< Cat(<<LitI("NAME"), Sp1, LitI("AND"), Sp1, LitI("ADDRESS"), Sp1, LitI("OF"),
                        Sp1, LitI("THE"), Sp1, LitI("APPLICANT")>>),
                  Cat(<<LitI("APPLICANT"), Opt(LitI("S"))>>),
                  LitI("APPLICANT"), LitI("NATIONALITY"), LitI("ADDRESS"),
                  Cat(<<LitI("TECHNICAL"), Sp1, LitI("FIELD")>>),
                  Cat(<<LitI("FIELD"), Sp1, LitI("OF"), Sp1, LitI("INVENTION")>>),
                  LitI("BACKGROUND"),
                  Cat(<<LitI("OBJECT"), Sp1, LitI("OF"), Sp1, LitI("THE"), Sp1,
                        LitI("INVENTION")>>),
                  Cat(<<LitI("SUMMARY"), Sp1, LitI("OF"), Sp1, LitI("THE"), Sp1,
                        LitI("INVENTION")>>),
                  Cat(<<LitI("DETAILED"), Sp1, LitI("DESCRIPTION")>>),
                  Cat(<<LitI("CLAIM"), Opt(LitI("S"))>>),
                  LitI("ABSTRACT") >>),
           WordB >>)

\* [ln.strip() for ln in lines]
StrippedLines(ls) == [i \in DOMAIN ls |-> Strip(ls[i], WS)]

\* cand where it is a title, "" where the code goes on: cand is not empty
\* and stop_pat does not match it
TitleOrEmpty(cand) == IF cand # <<>> /\ ~ReSearch(TitleStop, cand).found THEN cand ELSE <<>>

\* others of the cell ci of the row
OtherCells(row, ci) ==
    SelectSeq([j \in DOMAIN row |-> IF j # ci /\ Strip(row[j], WS) # <<>> THEN row[j] ELSE <<>>],
              LAMBDA x : x # <<>>)

\* the title that the cells beside a title key yield
TitleOfOthers(others) ==
    IF others = <<>> THEN <<>> ELSE TitleOrEmpty(_clean_title_line(Join(<<" ">>, others)))

\* the title that the cell c yields as a key, "" when it yields none
TitleBesideKey(row, ci, c) ==
    IF ~ReFullMatch(Cat(<<LitI("title"), Sp, Opt(Lit(":"))>>), c) THEN <<>>
    ELSE TitleOfOthers(OtherCells(row, ci))

\* the title that the cell c yields, its inline title in hand
TitleInlineOrBeside(row, ci, c, inline) ==
    IF inline # <<>> THEN inline ELSE TitleBesideKey(row, ci, c)

\* the inline title of the match m_inline in c, "" where there is none
TitleInline(c, m_inline) ==
    IF m_inline = <<>> THEN <<>> ELSE TitleOrEmpty(_clean_title_line(Part(m_inline, 2, c)))

\* the title that the stripped cell c, cell ci of the row, yields
TitleOfCell(row, ci, c) ==
    IF c = <<>> THEN <<>>
    ELSE TitleInlineOrBeside(row, ci, c,
             TitleInline(c, ReSearchParts(<< Cat(<<WordB, LitI("Title"), Sp, In({":", "-"}),
                                                   Sp>>),
                                             Plus(NotIn({})), Eos >>, c, 1)))

\* the title that cell ci of a cleaned row yields, "" when it yields none
TitleInCell(row, ci) == TitleOfCell(row, ci, Strip(row[ci], WS))

\* the title that a cleaned row yields, "" when it yields none
TitleInRow(row) == FirstText([ci \in DOMAIN row |-> TitleInCell(row, ci)])

\* the title that cleaned rows yield, "" when they yield none
TitleInRows(rows) == FirstText([r \in DOMAIN rows |-> TitleInRow(rows[r])])

\* the title that the tables of a page yield, "" when they yield none
TitleInTables(tables) == FirstText([t \in DOMAIN tables |-> TitleInRows(CleanedRows(tables[t]))])

RECURSIVE TitleFromTables(_, _)
\* the title of the page k where it has one, and the try block from the next
\* page on otherwise
TitleFromPage(pdf, k, cand) == IF cand # <<>> THEN cand ELSE TitleFromTables(pdf, k + 1)

\* the try block of extract_title_from_cs_pdf from page k on: the title it
\* returns, "" when it ends without one, Raised when extract_tables raises
TitleFromTables(pdf, k) ==
    IF k > Len(pdf) \/ k > 5 THEN <<>>
    ELSE IF pdf[k].raises THEN Raised
    ELSE TitleFromPage(pdf, k, TitleInTables(pdf[k].tables))

\* TITLE\s+OF\s+THE\s+INVENTION between word boundaries
TitleOfTheInvention ==
    Cat(<<WordB, LitI("TITLE"), Sp1, LitI("OF"), Sp1, LitI("THE"), Sp1, LitI("INVENTION"),
          WordB>>)

RECURSIVE TitleParts(_, _)
\* the body of the loop over lines[i + 1:i + 8] for the line s, cleaned, the
\* first of nxts
TitlePart(nxts, parts, s) ==
    IF s = <<>> THEN IF parts # <<>> THEN parts ELSE TitleParts(Tail(nxts), parts)
    ELSE IF ReEnds(Cat(<<Bos, LitI("Page"), Sp1, Plus(In(Digit)), Sp1, LitI("of"),
                         Sp1, Plus(In(Digit)), Eos>>), s, 1) # <<>>
    THEN TitleParts(Tail(nxts), parts)
    ELSE IF ReSearch(TitleStop, s).found THEN parts
    ELSE IF ReFullMatch(Cat(<<LitI("FORM"), Sp, Plus(In(Digit)), Star(Dot)>>), s)
    THEN TitleParts(Tail(nxts), parts)
    ELSE IF Len(Join(<<" ">>, Append(parts, s))) >= 140 THEN Append(parts, s)
    ELSE TitleParts(Tail(nxts), Append(parts, s))

\* the loop over lines[i + 1:i + 8], from the first of nxts on, parts in hand
TitleParts(nxts, parts) ==
    IF nxts = <<>> THEN parts ELSE TitlePart(nxts, parts, _clean_title_line(nxts[1]))

RECURSIVE TitleFromLines(_, _)
\* the title under the heading of line i where there is one, and the loop
\* from the next line on otherwise
TitleBelow(lines, i, title) == IF title # <<>> THEN title ELSE TitleFromLines(lines, i + 1)

\* the body of the loop for the heading of line i, inline in hand
TitleAtHeading(lines, i, inline) ==
    IF inline # <<>> /\ ~ReSearch(TitleStop, inline).found THEN inline
    ELSE TitleBelow(lines, i,
                    Strip(ReSub(Sp1, <<" ">>,
                                Join(<<" ">>,
                                     TitleParts(SubSeq(lines, i + 1, Min({Len(lines), i + 7})),
                                                <<>>))),
                          {" ", ":", "-"}))

\* the loop over the lines from line i on: the title it returns, "" when none
TitleFromLines(lines, i) ==
    IF i > Len(lines) THEN <<>>
    ELSE IF ~ReSearch(TitleOfTheInvention, lines[i]).found THEN TitleFromLines(lines, i + 1)
    ELSE TitleAtHeading(lines, i,
                        _clean_title_line(
                            ReSub(Cat(<<Bos, RepLazy(Dot, 0, -1), TitleOfTheInvention, Sp,
                                        Opt(In({":", "-"})), Sp>>), <<>>, lines[i])))

\* m2.group(1).strip() of extract_title_from_cs_pdf, "" where m2 is None
TitleLabelled(t) ==
    Strip(ReGroup1(Cat(<<Alt(<<Bos, Lit("\n")>>), Sp, LitI("Title"), Sp, In({":", "-"}), Sp>>),
                   Cat(<<In(Alpha),
                         Rep(In(Alpha \cup Digit \cup {" ", "&", "/", "'", ",", ".", "-"}),
                             5, -1)>>),
                   Cat(<<>>), t), WS)

\* extract_title_from_cs_pdf after the loop over the lines
TitleByLines(raw, title) == IF title # <<>> THEN title ELSE TitleLabelled(_clean(raw))

\* extract_title_from_cs_pdf after the try block
TitleByTables(raw, cand) ==
    IF cand # <<>> /\ cand # Raised THEN cand
    ELSE TitleByLines(raw, TitleFromLines(StrippedLines(SplitLines(raw)), 1))

\* extract_title_from_cs_pdf with raw in hand
TitleOfText(pdf, raw) ==
    IF raw = <<>> THEN <<>> ELSE TitleByTables(raw, TitleFromTables(pdf, 1))

extract_title_from_cs_pdf(pdf) == TitleOfText(pdf, read_pdf_text(pdf))

_looks_like_address_or_meta(text) ==
    \/ ReSearch(Cat(<<WordB, AnyOfI(<<"Nationality", "Address", "Name">>), WordB>>), text).found
    \/ ReSearch(Cat(<<WordB,
                      AnyOfI(<<"road", "street", "lane", "nagar", "city", "state", "district",
                               "post", "pin", "postcode", "building", "floor", "sector",
                               "circle", "park", "block", "phase", "enclave", "miles", "mile",
                               "karnataka", "telangana", "india">>),
                      WordB>>), text).found
    \/ ReSearch(Rep(In(Digit), 3, -1), text).found

\* re.findall(r"[A-Za-z]+", s)
AlphaWords(s) ==
    LET words(ms) == [i \in DOMAIN ms |-> Part(ms[i], 1, s)]
    IN words(ReFindAll(<<Plus(In(Alpha))>>, s, 1))

\* stop_words of _extract_company_name_from_block
CompanyStopWords ==
    { Chars("unit"), Chars("floor"), Chars("sector"), Chars("road"), Chars("street"),
      Chars("lane"), Chars("nagar"), Chars("building"), Chars("tower"), Chars("towers"),
      Chars("pin"), Chars("postcode"), Chars("state"), Chars("district"), Chars("city"),
      Chars("village"), Chars("plot"), Chars("door"), Chars("flat"), Chars("apartment"),
      Chars("block"), Chars("phase"), Chars("extension"), Chars("enclave"), Chars("no"),
      Chars("number") }

RECURSIVE CompanyKeptTokens(_, _, _)
\* the loop over reversed(prefix_tokens) of _extract_company_name_from_block,
\* from token k down, kept in hand
CompanyKeptTokens(prefix_tokens, k, kept) ==
    IF k = 0 \/ Len(kept) >= 10 THEN kept
    ELSE LET opens(s, w) == Len(s) >= Len(w) /\ SubSeq(s, 1, Len(w)) = w
             stop(low) == \/ low \in CompanyStopWords
                          \/ \E sw \in CompanyStopWords : opens(low, sw \o <<"-">>)
                          \/ \E sw \in CompanyStopWords :
                                 opens(SelectSeq(low, LAMBDA c : c \in Lower), sw)
             step(tok) ==
                 IF \E i \in DOMAIN tok : tok[i] \in Digit
                 THEN IF kept # <<>> THEN kept ELSE CompanyKeptTokens(prefix_tokens, k - 1, kept)
                 ELSE IF stop(Strip(StrLower(tok), {".", ","}))
                 THEN IF kept # <<>> THEN kept ELSE CompanyKeptTokens(prefix_tokens, k - 1, kept)
                 ELSE CompanyKeptTokens(prefix_tokens, k - 1,
                                        Append(kept, Strip(tok, {".", ","})))
         IN step(prefix_tokens[k])

\* the number of stop words among words
CompanyStops(words) ==
    Cardinality({i \in DOMAIN words : StrLower(words[i]) \in CompanyStopWords})

\* the (score, cand) of cand, "" where it has fewer than two words
CompanyScored(cand, words) ==
    IF Len(words) < 2 THEN <<>>
    ELSE << <<3 * Len(words) - 4 * CompanyStops(words)
                - (IF \E i \in DOMAIN cand : cand[i] \in Digit THEN 6 ELSE 0),
              cand>> >>

\* the (score, cand) of cand
CompanyTrimmed(cand) == CompanyScored(cand, AlphaWords(cand))

\* the (score, cand) of the base and the suffix of one match
CompanyNamed(base, suffix) ==
    IF base = <<>> THEN <<>>
    ELSE CompanyTrimmed(Strip(ReSub(Cat(<<Bos, Rep(Cat(<<Rep(In(Upper), 1, 2), Sp1>>), 1, 2)>>),
                                    <<>>,
                                    Strip(ReSub(Sp1, <<" ">>, base \o <<" ">> \o suffix),
                                          {" ", ",", ";", "."})),
                              WS))

\* the (score, cand) of one match of suffix_pat, the kept tokens in hand
CompanyOfKept(kept, suffix) ==
    IF kept = <<>> THEN <<>>
    ELSE CompanyNamed(Strip(Join(<<" ">>, Reversed(kept)), WS), suffix)

\* the (score, cand) of the match m of suffix_pat in s
CompanyOfMatch(s, m, prefix_tokens) ==
    CompanyOfKept(CompanyKeptTokens(prefix_tokens, Len(prefix_tokens), <<>>), Part(m, 1, s))

\* prefix_tokens of the prefix
CompanyPrefixTokens(prefix) ==
    PrefixTokens(prefix,
                 ReFindAll(<<Plus(In(Alpha \cup Digit
                                     \cup {"&", "(", ")", ".", "'", "/", "+", "-"}))>>,
                           prefix, 1))

\* the (score, cand) of the matches ms of suffix_pat in s, in their order
CompaniesOfMatches(s, ms) ==
    Flatten([i \in DOMAIN ms |->
                CompanyOfMatch(s, ms[i], CompanyPrefixTokens(SubSeq(s, 1, ms[i][1] - 1)))])

\* the candidates (score, cand) of _extract_company_name_from_block, in the
\* order of the matches of suffix_pat
CompanyCandidates(s) == CompaniesOfMatches(s, ReFindAll(<<CorpSuffix>>, s, 1))

\* best with first_token put before it where the code does so
CompanyAttached(first_token, best) ==
    IF first_token # <<>> /\ ~Occurs(StrLower(first_token), StrLower(best))
       /\ Len(FindAllNonSpace(best)) <= 6
    THEN Strip(ReSub(Cat(<<Bos, [t |-> "lit", cs |-> first_token, ci |-> FALSE], Sp1,
                           Rep(In(Upper), 1, 2), Sp1>>),
                     first_token \o <<" ">>,
                     first_token \o <<" ">> \o best), WS)
    ELSE best

\* the candidate of the first of the highest scores
CompanyTop(cs) == cs[Min({i \in DOMAIN cs : \A j \in DOMAIN cs : cs[j][1] <= cs[i][1]})][2]

\* _extract_company_name_from_block with the candidates in hand
CompanyBest(s, cs) ==
    IF cs = <<>> THEN <<>>
    ELSE _normalize_applicant_name(
             CompanyAttached(_first_match(Cat(<<Bos, Sp>>),
                                          Cat(<<In(Alpha),
                                                Plus(In(Alpha \cup Digit \cup {"&", "'", "-"}))>>),
                                          Cat(<<>>), s),
                             CompanyTop(cs)))

\* _extract_company_name_from_block for s, the block with its whitespace
\* collapsed
CompanyOfBlock(s) == IF s = <<>> THEN <<>> ELSE CompanyBest(s, CompanyCandidates(s))

_extract_company_name_from_block(block) ==
    CompanyOfBlock(Strip(ReSub(Sp1, <<" ">>, block), WS))

\* the end of _pick_best_applicant_name: the company of the block, else the
\* institutions of the block, else the normalized name
PickedByBlock(normalized, company, raw_name) ==
    IF company # <<>> THEN {company}
    ELSE {IF i # <<>> THEN i ELSE normalized :
              i \in _extract_institution_name_from_block(raw_name)}

\* _pick_best_applicant_name from the test of compact on
PickedCompact(normalized, words, raw_name) ==
    IF normalized # <<>> /\ words # <<>> /\ Len(words) <= 14
       /\ ~_looks_like_address_or_meta(normalized)
    THEN {normalized}
    ELSE PickedByBlock(normalized, _extract_company_name_from_block(raw_name), raw_name)

\* _pick_best_applicant_name with normalized in hand
PickedNormalized(normalized, raw_name) ==
    PickedCompact(normalized, AlphaWords(normalized), raw_name)

\* the names that a run may return for raw_name
_pick_best_applicant_name(raw_name) ==
    PickedNormalized(_normalize_applicant_name(raw_name), raw_name)

\* stops of _extract_applicant_from_labeled_block
ApplicantBlockStops ==
    Alt(<< Cat(<<Lit("\n"), Sp, LitI("The"), Sp1, LitI("following"), Sp1,
                 LitI("specification")>>),
           Cat(<<Lit("\n"), Sp, LitI("FIELD"), Sp1, LitI("OF"), Sp1, LitI("INVENTION"), WordB>>),
           Cat(<<Lit("\n"), Sp, LitI("TECHNICAL"), Sp1, LitI("FIELD"), WordB>>),
           Cat(<<Lit("\n"), Sp, LitI("BACKGROUND"), WordB>>),
           Cat(<<Lit("\n"), Sp, LitI("OBJECT"), Opt(Alt(<<LitI("S"), LitI("IVE")>>)), Sp1,
                 LitI("OF"), Sp1, LitI("THE"), Sp1, LitI("INVENTION"), WordB>>),
           Eos >>)

\* \bAPPLICANTS?\s*(?:\(\s*s\s*\))?\s*[:\-]?\s*
ApplicantsLabel ==
    Cat(<<WordB, LitI("APPLICANT"), Opt(LitI("S")), Sp, Opt(ParenS), Sp, Opt(In({":", "-"})),
          Sp>>)

\* group k of the match m in s, and otherwise what the code goes on with
GroupOrElse(m, k, s, otherwise) == IF m # <<>> THEN Part(m, k, s) ELSE otherwise

\* block of _extract_applicant_from_labeled_block
LabeledBlock(text) ==
    GroupOrElse(ReSearchParts(<<ApplicantsLabel, RepLazy(NotIn({}), 1, -1),
                                ApplicantBlockStops>>, text, 1),
                2, text, text)

\* the group of the second search of _extract_applicant_from_labeled_block,
\* "" where it finds nothing
LabeledSecondGroup(block) ==
    GroupOrElse(ReSearchParts(<< ApplicantsLabel, RepLazy(NotIn({}), 1, -1),
                                 Alt(<< Cat(<<Lit("\n"), Sp,
                                              AnyOfI(<<"Nationality", "Address">>), Sp,
                                              Opt(In({":", "-"}))>>),
                                        ApplicantBlockStops >>) >>, block, 1),
                2, block, <<>>)

\* the group of the search by which _extract_applicant_from_labeled_block
\* names the applicant: the first search, and the second where the first
\* finds nothing
LabeledGroup(block) ==
    GroupOrElse(ReSearchParts(<< Cat(<<WordB, LitI("Name"), Sp, In({":", "-"}), Sp>>),
                                 RepLazy(NotIn({}), 1, -1),
                                 Alt(<< Cat(<<Lit("\n"), Sp,
                                              AnyOfI(<<"Nationality", "Address">>), Sp,
                                              In({":", "-"})>>),
                                        ApplicantBlockStops >>) >>, block, 1),
                2, block, LabeledSecondGroup(block))

\* the candidates that a raw name passes on, "" where the code goes on
Candidate(raw_name) ==
    IF raw_name = <<>> THEN {<<>>}
    ELSE {IF c # <<>> /\ HasAlpha(c) THEN c ELSE <<>> :
              c \in _pick_best_applicant_name(raw_name)}

\* the names that a run may return for the text, "" where it finds none
_extract_applicant_from_labeled_block(text) ==
    IF Strip(text, WS) = <<>> THEN {<<>>}
    ELSE Candidate(Strip(ReSub(Sp1, <<" ">>,
                               ReSub(Plus(Lit("\n")), <<" ">>, LabeledGroup(LabeledBlock(text)))),
                         {" ", ",", ";", ":", "-"}))

\* the results of a strategy that returns one of first unless it is "", and
\* otherwise goes on to what returns one of rest
ElseOf(first, rest) == (first \ {<<>>}) \cup (IF <<>> \in first THEN rest ELSE {})

\* the candidates that a raw name of a table row passes on, "" where the
\* scan goes on
RowCandidate(raw_name) ==
    {IF c # <<>> /\ HasAlpha(c) THEN c ELSE <<>> : c \in _pick_best_applicant_name(raw_name)}

\* (?i)(name|nationality|address|indian)
NotAName == AnyOfI(<<"name", "nationality", "address", "indian">>)

\* (?i)(name|nationality|address|indian|applicant(?:s|\(\s*s\s*\))?)
NotAnApplicant ==
    Alt(<<NotAName, Cat(<<LitI("applicant"), Opt(Alt(<<LitI("s"), ParenS>>))>>)>>)

\* the raw name read from the cell after a key cell, stripped of the
\* characters of strip
NextCell(row, i, strip) == Strip(ReSub(Sp1, <<" ">>, row[i + 1]), strip)

\* (?i)applicant(?:s|\(\s*s\s*\))?\s*:?
IsApplicantKey(key) ==
    ReFullMatch(Cat(<<LitI("applicant"), Opt(Alt(<<LitI("s"), ParenS>>)), Sp, Opt(Lit(":"))>>),
                key)

\* (?i)name|name\s*:
IsNameKey(key) == ReFullMatch(Alt(<<LitI("name"), Cat(<<LitI("name"), Sp, Lit(":")>>)>>), key)

\* the raw names that the name key of cell i hands to
\* _pick_best_applicant_name
NameKeyRawNames(row, i, key, raw_name) ==
    IF ~IsNameKey(key) \/ i + 1 > Len(row) THEN <<>>
    ELSE IF raw_name = <<>> \/ ReFullMatch(NotAName, raw_name) THEN <<>>
    ELSE <<raw_name>>

\* the raw names that cell i of the row hands to _pick_best_applicant_name,
\* in the order of the calls
CellRawNames(row, i, key, raw_name) ==
    IF ~IsApplicantKey(key)
    THEN NameKeyRawNames(row, i, key, NextCell(row, i, {" ", ",", ";", ":", "-"}))
    ELSE IF i + 1 > Len(row) THEN <<>>
    ELSE IF raw_name = <<>> \/ ReFullMatch(NotAnApplicant, raw_name) THEN <<>>
    ELSE <<raw_name>> \o NameKeyRawNames(row, i, key, NextCell(row, i, {" ", ",", ";", ":", "-"}))

RECURSIVE CellsRawNames(_, _)
\* the raw names that the loop over the cells of a cleaned row hands to
\* _pick_best_applicant_name, from cell i on
CellsRawNames(row, i) ==
    IF i > Len(row) THEN <<>>
    ELSE CellRawNames(row, i, Strip(row[i], WS), NextCell(row, i, {" ", ",", ";", ":", "-", "|"}))
             \o CellsRawNames(row, i + 1)

\* the raw names of a row from the search of m on: the row is left where the
\* name is one of the words of NotAName
NameRawNames(row, m, row_text) ==
    IF m = <<>> THEN CellsRawNames(row, 1)
    ELSE IF ReFullMatch(NotAName, Strip(ReSub(Sp1, <<" ">>, Part(m, 2, row_text)),
                                        {" ", ",", ";", ":", "-"}))
    THEN <<>>
    ELSE <<Strip(ReSub(Sp1, <<" ">>, Part(m, 2, row_text)), {" ", ",", ";", ":", "-"})>>
             \o CellsRawNames(row, 1)

\* the raw name of m_app, where it is handed to _pick_best_applicant_name
ApplicantRawNames(raw_name) ==
    IF raw_name = <<>> \/ ReFullMatch(NotAnApplicant, raw_name) THEN <<>> ELSE <<raw_name>>

\* the raw names that the body of the loop over cleaned_rows hands to
\* _pick_best_applicant_name for one row, m_app in hand
RowTextRawNames(row, m_app, row_text) ==
    (IF m_app = <<>> THEN <<>>
     ELSE ApplicantRawNames(Strip(ReSub(Sp1, <<" ">>, Part(m_app, 2, row_text)),
                                  {" ", ",", ";", ":", "-", "|"})))
    \o NameRawNames(row,
                    ReSearchParts(<< Cat(<<WordB, LitI("Name"), Sp, Opt(In({":", "-"})), Sp>>),
                                     RepLazy(NotIn({}), 1, -1),
                                     Alt(<<Cat(<<WordB, LitI("Nationality"), WordB>>), Eos>>) >>,
                                  row_text, 1),
                    row_text)

\* the raw names of one row, row_text in hand
RowRawNames(row, row_text) ==
    RowTextRawNames(row,
                    ReSearchParts(<< Cat(<<WordB, LitI("Applicant"),
                                           Opt(Alt(<<LitI("s"), ParenS>>)), Sp,
                                           Opt(In({":", "-"})), Sp>>),
                                     RepLazy(NotIn({}), 1, -1),
                                     Alt(<<Cat(<<WordB, LitI("Nationality"), WordB>>),
                                           Cat(<<WordB, LitI("Address"), WordB>>),
                                           Eos>>) >>, row_text, 1),
                    row_text)

RECURSIVE RowsRawNames(_, _)
\* the raw names of the loop over a sequence of cleaned rows, from row r on
RowsRawNames(rows, r) ==
    IF r > Len(rows) THEN <<>>
    ELSE RowRawNames(rows[r], Join(Chars(" | "), SelectSeq(rows[r], LAMBDA c : c # <<>>)))
             \o RowsRawNames(rows, r + 1)

RECURSIVE TableRawNames(_, _)
\* the raw names that the try block of _extract_applicant_from_cs_tables hands
\* to _pick_best_applicant_name from page k on, in the order of the calls,
\* with Raised where extract_tables raises
TableRawNames(pdf, k) ==
    IF k > Len(pdf) \/ k > 5 THEN <<>>
    ELSE IF pdf[k].raises THEN <<Raised>>
    ELSE RowsRawNames(Flatten([t \in DOMAIN pdf[k].tables |-> CleanedRows(pdf[k].tables[t])]),
                      1)
             \o TableRawNames(pdf, k + 1)

RECURSIVE FirstCandidate(_, _)
\* the return of the first call that yields a candidate with a letter, from
\* raw name i on: "" where none does, Raised where extract_tables raises first
FirstCandidate(raw_names, i) ==
    IF i > Len(raw_names) THEN {<<>>}
    ELSE IF raw_names[i] = Raised THEN {Raised}
    ELSE ElseOf(RowCandidate(raw_names[i]), FirstCandidate(raw_names, i + 1))

\* the try block of _extract_applicant_from_cs_tables from page k on: the names
\* it may return, "" where it ends without one, Raised where extract_tables
\* raises
ApplicantFromTables(pdf, k) == FirstCandidate(TableRawNames(pdf, k), 1)

\* the mutant of _extract_applicant_from_cs_tables: no except clause
ApplicantFromTablesUncaught(pdf) == ApplicantFromTables(pdf, 1)

_extract_applicant_from_cs_tables(pdf) ==
    {IF c = Raised THEN <<>> ELSE c : c \in ApplicantFromTables(pdf, 1)}

RECURSIVE ApplicantBlockLines(_, _)
RECURSIVE ApplicantBlockLine(_, _, _)
\* the body of the loop over lines[start + 1:start + 20] for the line s,
\* stripped, the first of lns
ApplicantBlockLine(lns, parts, s) ==
    IF s = <<>>
    THEN IF parts # <<>> THEN parts ELSE ApplicantBlockLines(Tail(lns), parts)
    ELSE IF ReEnds(Cat(<<Bos, LitI("Page"), Sp1, Plus(In(Digit)), Sp1, LitI("of"),
                         Sp1, Plus(In(Digit)), Eos>>), s, 1) # <<>>
    THEN ApplicantBlockLines(Tail(lns), parts)
    ELSE IF ReSearch(Cat(<<WordB, LitI("Name"), Sp1, LitI("Nationality"), Sp1,
                           LitI("Address"), WordB>>), s).found
    THEN ApplicantBlockLines(Tail(lns), parts)
    ELSE IF ReSearch(Cat(<<WordB, LitI("The"), Sp1, LitI("following"), Sp1,
                           LitI("specification"), WordB>>), s).found
    THEN parts
    ELSE IF ~HasAlpha(s) THEN ApplicantBlockLines(Tail(lns), parts)
    ELSE IF ReSearch(Cat(<<WordB,
                           Alt(<< Cat(<<LitI("NAME"), Sp1, LitI("AND"), Sp1,
                                        LitI("ADDRESS")>>),
                                  LitI("NATIONALITY"),
                                  Cat(<<LitI("TITLE"), Sp1, LitI("OF"), Sp1,
                                        LitI("THE"), Sp1, LitI("INVENTION")>>),
                                  Cat(<<LitI("FIELD"), Sp1, LitI("OF"), Sp1,
                                        LitI("INVENTION")>>),
                                  LitI("BACKGROUND") >>),
                           WordB>>), s).found
    THEN parts
    ELSE IF ReSearch(Cat(<<WordB, CorpSuffix, WordB>>),
                     Join(<<" ">>, Append(parts, s))).found
    THEN Append(parts, s)
    ELSE ApplicantBlockLines(Tail(lns), Append(parts, s))

\* the loop over lines[start + 1:start + 20], from the first of lns on
ApplicantBlockLines(lns, parts) ==
    IF lns = <<>> THEN parts
    ELSE ApplicantBlockLine(lns, parts,
                            Strip(ReSub(CidPat, <<>>, lns[1]), {" ", "/", ":", ";", "-"}))

\* the lines at which the loop of extract_applicant_from_cs_pdf may set start
ApplicantStarts(lines) ==
    {i \in DOMAIN lines :
         ReSearch(Cat(<<LitI("NAME"), Sp1, LitI("AND"), Sp1, LitI("ADDRESS"), Sp1,
                        LitI("OF"), Sp1, LitI("THE"), Sp1, LitI("APPLICANT")>>),
                  lines[i]).found}

\* raw_block of extract_applicant_from_cs_pdf for the lines and their starts
ApplicantRawBlock(lines, at) ==
    Join(<<" ">>,
         ApplicantBlockLines(SubSeq(lines, Min(at) + 1, Min({Len(lines), Min(at) + 19})), <<>>))

\* extract_applicant_from_cs_pdf from by_table on
ApplicantByTable(pdf, raw) ==
    ElseOf(_extract_applicant_from_cs_tables(pdf),
           _pick_best_applicant_name(_extract_applicant_from_text(_clean(raw))))

\* extract_applicant_from_cs_pdf from the block under start on
ApplicantByBlock(pdf, raw, lines, at) ==
    ElseOf(IF at = {} THEN {<<>>}
           ELSE _pick_best_applicant_name(ApplicantRawBlock(lines, at)),
           ApplicantByTable(pdf, raw))

\* extract_applicant_from_cs_pdf from lines on
ApplicantByLines(pdf, raw, lines) == ApplicantByBlock(pdf, raw, lines, ApplicantStarts(lines))

\* extract_applicant_from_cs_pdf with raw in hand
ApplicantOfText(pdf, raw) ==
    IF raw = <<>> THEN {<<>>}
    ELSE ElseOf(_extract_applicant_from_labeled_block(raw),
                ApplicantByLines(pdf, raw, StrippedLines(SplitLines(raw))))

\* the names that a run may return for the cover sheet
extract_applicant_from_cs_pdf(pdf) == ApplicantOfText(pdf, read_pdf_text(pdf))

(***************************************************************************)
(* The cover sheets of the model: PDFs of up to MaxPages pages taken from   *)
(* CoverPages, among them pages on which extract_tables raises.             *)
(***************************************************************************)
MaxPages == 2

CoverPages ==
    LET page(text, tables, raises) == [text |-> text, tables |-> tables, raises |-> raises]
        company == Chars("Applicant: Acme Widgets Private Limited")
        heading == Chars("TITLE OF THE INVENTION\nSMART VALVE")
    IN << page(company \o <<"\n">> \o heading, <<>>, TRUE),
          page(Chars("Title: Smart valve assembly"),
               << << <<Chars("Applicant"), Chars("Globex Corporation")>> >> >>, FALSE),
          page(<<>>, << << <<Chars("Title"), Chars("Pump unit")>>,
                           <<Chars("Name: Jane Roe Nationality Indian")>> >> >>, FALSE),
          page(Chars("NAME AND ADDRESS OF THE APPLICANT\nManipal Institute of Technology India"),
               <<>>, FALSE),
          page(company, << << <<Chars("Notes"), <<>>>>, <<>> >> >>, FALSE),
          page(Chars("Title: Smart valve assembly"), <<>>, TRUE) >>

CoverSheets ==
    UNION {[1..n -> {CoverPages[i] : i \in DOMAIN CoverPages}] : n \in 1..MaxPages}

InitCoverSheet == pc = "cover sheet" /\ input \in CoverSheets /\ out = <<>>

\* cs_title = extract_title_from_cs_pdf(cs_path)
ExtractCsTitle ==
    /\ pc = "cover sheet"
    /\ out' = [title |-> extract_title_from_cs_pdf(input), applicant |-> <<>>]
    /\ pc' = "cs title"
    /\ UNCHANGED input

\* cs_applicant = extract_applicant_from_cs_pdf(cs_path)
ExtractCsApplicant ==
    /\ pc = "cs title"
    /\ \E name \in extract_applicant_from_cs_pdf(input) :
           out' = [title |-> out.title, applicant |-> name]
    /\ pc' = "cs applicant"
    /\ UNCHANGED input

NextCoverSheet == ExtractCsTitle \/ ExtractCsApplicant

SpecCoverSheet == InitCoverSheet /\ [][NextCoverSheet]_vars

\* the cover sheet with the text of every page and no table on any
TextOnly(pdf) == [k \in DOMAIN pdf |-> [text |-> pdf[k].text, tables |-> <<>>, raises |-> FALSE]]

\* C14: an exception inside the table-scanning pass of cover-sheet resolution
\* does not leave the extractor: the pass contributes nothing, and the title
\* and the applicant are the ones that the text-based strategies give, the
\* same as for the cover sheet read without its tables.
C14_TableFailureStaysLocal ==
    pc = "cs applicant" =>
        /\ out.title # Raised
        /\ out.applicant # Raised
        /\ TitleFromTables(input, 1) = Raised =>
               out.title = extract_title_from_cs_pdf(TextOnly(input))
        /\ ApplicantFromTables(input, 1) = {Raised} =>
               out.applicant \in extract_applicant_from_cs_pdf(TextOnly(input))

\* a second page whose tables raise after a first page that was scanned, and
\* a title and an applicant found in the text all the same
C14_Witness ==
    /\ pc = "cs applicant"
    /\ Len(input) = 2 /\ ~input[1].raises /\ input[1].tables # <<>> /\ input[2].raises
    /\ TitleFromTables(input, 1) = Raised
    /\ ApplicantFromTables(input, 1) = {Raised}
    /\ _extract_applicant_from_labeled_block(read_pdf_text(input)) = {<<>>}
    /\ out.title # <<>>
    /\ out.applicant # <<>>

(***************************************************************************)
(* The application number of a report whose label, if any, is not at the   *)
(* head of the text: _extract_meta on texts of up to MaxMetaLines pieces,   *)
(* a piece one line or a run of LineScanLimit lines that carry nothing.     *)
(***************************************************************************)
MaxMetaLines == 3

\* t.splitlines()[:40]
LineScanLimit == 40

MetaPieces ==
    { Chars("Application No: 201941012345"),
      Chars("201941054321 Application No."),
      Chars("Application No: pending"),
      Chars("Dated 201941099999"),
      Chars("Phone 9876543210"),
      Join(<<"\n">>, [i \in 1..LineScanLimit |-> <<"-">>]) }

MetaTexts ==
    {Join(<<"\n">>, parts) : parts \in UNION {[1..n -> MetaPieces] : n \in 1..MaxMetaLines}}

InitAppNo == pc = "text" /\ input \in MetaTexts /\ out = <<>>

SpecAppNo == InitAppNo /\ [][NextMeta]_vars

\* the value that each strategy of _extract_meta finds in the text, in the
\* order (a), (b), (c), (d)
AppNoStrategies(t) ==
    << LabelledFrom(t, 1),
       LineScan(Take(SplitLines(t), 40)),
       BareDigits(Join(<<"\n">>, Take(SplitLines(t), 30)), 12, 12),
       BareDigits(t, 10, 18) >>

\* the first value of found that is not empty, "" where every one is
FirstFound(found) ==
    IF \A k \in DOMAIN found : found[k] = <<>> THEN <<>>
    ELSE found[Min({k \in DOMAIN found : found[k] # <<>>})]

\* C15: the application number is the value of the first of the strategies
\* (a) labelled capture, (b) label looked for in the first 40 lines, (c) twelve
\* digits in the first 30 lines, (d) a run of 10 to 18 digits anywhere, that
\* yields a value; no later strategy's value is used when an earlier one has
\* a value, and the number is empty when none has.
C15_FirstStrategyWins ==
    pc = "meta" => out.application_no = FirstFound(AppNoStrategies(input))

\* whether (c) and (d) find different numbers, neither (a) nor (b) finds one,
\* and the number is that of (c)
TwelveDigitsWin(found, application_no) ==
    /\ found[1] = <<>>
    /\ found[2] = <<>>
    /\ found[3] # <<>>
    /\ found[4] # found[3]
    /\ application_no = found[3]

\* a text in which the twelve digits of the first 30 lines win over a
\* different run of digits
C15_Witness == pc = "meta" /\ TwelveDigitsWin(AppNoStrategies(input), out.application_no)

(***************************************************************************)
(* FormalRequirementsTableReconstructor: the scan of the tables of the FER  *)
(* by fer_parser.extract_formal_requirements_rows_from_pdf.  The PDF is the *)
(* sequence of its pages, a page [text, tables]: text is what extract_text  *)
(* returns and tables what extract_tables returns.  Columns and rows are    *)
(* numbered from 0, as in the code; a row of rows is the pair <<ob, rem>>.  *)
(***************************************************************************)
\* the em dash U+2014
MDash == "MDASH"

\* PART\s*[-–]?\s*III[^\n]{0,100}FORMAL\s+REQUIREMENTS
FormalSection ==
    Cat(<<LitI("PART"), Sp, Opt(In({"-", NDash})), Sp, LitI("III"), Rep(Dot, 0, 100),
          LitI("FORMAL"), Sp1, LitI("REQUIREMENTS")>>)

\* PART\s*[-–]?\s*IV|DOCUMENTS\s+ON\s+RECORD
PartIVMarker ==
    Alt(<< Cat(<<LitI("PART"), Sp, Opt(In({"-", NDash})), Sp, LitI("IV")>>),
           Cat(<<LitI("DOCUMENTS"), Sp1, LitI("ON"), Sp1, LitI("RECORD")>>) >>)

\* \bobjections?\b
ObjectionsWord == Cat(<<WordB, LitI("objection"), Opt(LitI("s")), WordB>>)

\* \bremarks?\b
RemarksWord == Cat(<<WordB, LitI("remark"), Opt(LitI("s")), WordB>>)

\* ^THE\s+PATENT\s+OFFICE$
ThePatentOffice ==
    Cat(<<Bos, LitI("THE"), Sp1, LitI("PATENT"), Sp1, LitI("OFFICE"), Eos>>)

\* ^Page\s+\d+\s+of\s+\d+$
PageOf ==
    Cat(<<Bos, LitI("Page"), Sp1, Plus(In(Digit)), Sp1, LitI("of"), Sp1, Plus(In(Digit)), Eos>>)

\* " ".join(" ".join(r) for r in rows)
RowsText(rows) == Join(<<" ">>, [i \in DOMAIN rows |-> Join(<<" ">>, rows[i])])

\* the test that skips docket and document lists
IsDocketTable(cleaned_rows) ==
    ReSearch(Alt(<< LitI("docket"), LitI("entry number"), LitI("publication date"),
                    Cat(<<LitI("sl"), Opt(Lit(".")), LitI("no")>>) >>),
             StrLower(RowsText(Take(cleaned_rows, 3)))).found

\* the indices of the cells of the row in which the label is found
LabelColumns(row, label) ==
    {idx \in 0..(Len(row) - 1) : ReSearch(label, row[idx + 1]).found}

\* chosen of the loops over ob_cols and rem_cols: <<oi, ri>>, or <<>> when
\* no two different cells hold the two labels
Chosen(ob_cols, rem_cols) ==
    IF \A oi \in ob_cols : rem_cols \subseteq {oi} THEN <<>>
    ELSE << Min({oi \in ob_cols : ~(rem_cols \subseteq {oi})}),
            Min(rem_cols \ {Min({oi \in ob_cols : ~(rem_cols \subseteq {oi})})}) >>

\* the mutant of ChosenColumns: one cell may hold both labels
ChosenColumnsInOneCell(row) ==
    IF LabelColumns(row, ObjectionsWord) = {} \/ LabelColumns(row, RemarksWord) = {} THEN <<>>
    ELSE <<Min(LabelColumns(row, ObjectionsWord)), Min(LabelColumns(row, RemarksWord))>>

\* chosen for a row of cleaned_rows[:8]
ChosenColumns(row) == Chosen(LabelColumns(row, ObjectionsWord), LabelColumns(row, RemarksWord))

\* the rows of cleaned_rows[:8] for which chosen is set
HeaderRows(cleaned_rows) ==
    {ridx \in 0..(Min({8, Len(cleaned_rows)}) - 1) : ChosenColumns(cleaned_rows[ridx + 1]) # <<>>}

\* <<ob_idx, rem_idx, start_idx>> of the first of the header rows ridxs
HeaderAt(cleaned_rows, ridxs) ==
    IF ridxs = {} THEN <<>>
    ELSE ChosenColumns(cleaned_rows[Min(ridxs) + 1]) \o <<Min(ridxs) + 1>>

\* the header among cleaned_rows[:8]: <<ob_idx, rem_idx, start_idx>>, or <<>>
HeaderColumns(cleaned_rows) == HeaderAt(cleaned_rows, HeaderRows(cleaned_rows))

\* objection_hint
ObjectionHint ==
    Cat(<< WordB,
           Alt(<< Cat(<<LitI("Form"), Sp, Plus(In(Digit))>>),
                  Cat(<<LitI("Power"), Sp1, LitI("of"), Sp1, LitI("Attorney")>>),
                  Cat(<<LitI("Format"), Sp1, LitI("of")>>),
                  Cat(<<LitI("Other"), Sp1, LitI("Deficiencies")>>),
                  Cat(<<LitI("Applicable"), Sp1, LitI("fee")>>),
                  LitI("Endorsement"),
                  Cat(<<LitI("Date"), Sp1, LitI("and"), Sp1, LitI("Signature")>>),
                  Cat(<<LitI("Statement"), Sp, Lit("&"), Sp, LitI("Under"), Sp,
                        LitI("Taking")>>),
                  Cat(<<LitI("Statement"), Sp, Lit("&"), Sp, LitI("Undertaking")>>) >>),
           WordB >>)

\* non_empty of column ci
ColumnValues(cleaned_rows, ci) ==
    SelectSeq([i \in DOMAIN cleaned_rows |->
                  IF ci < Len(cleaned_rows[i]) THEN cleaned_rows[i][ci + 1] ELSE <<>>],
              LAMBDA v : v # <<>>)

\* score of column ci
ColumnScore(cleaned_rows, ci) == Len(ColumnValues(cleaned_rows, ci))

\* sum(len(v) for v in non_empty) of column ci
ColumnTotal(cleaned_rows, ci) == Len(Flatten(ColumnValues(cleaned_rows, ci)))

\* avg_len of column a below avg_len of column b, both populated
ShorterOnAverage(cleaned_rows, a, b) ==
    ColumnTotal(cleaned_rows, a) * ColumnScore(cleaned_rows, b)
        < ColumnTotal(cleaned_rows, b) * ColumnScore(cleaned_rows, a)

\* ncols
NumColumns(cleaned_rows) ==
    Max({0} \cup {Len(cleaned_rows[i]) : i \in DOMAIN cleaned_rows})

\* the columns of ob_candidates
PopulatedColumns(cleaned_rows) ==
    {ci \in 0..(NumColumns(cleaned_rows) - 1) : ColumnScore(cleaned_rows, ci) > 0}

\* the key (avg_len, -score) of column a below that of column b
ObjectionKeyBelow(cleaned_rows, a, b) ==
    \/ ShorterOnAverage(cleaned_rows, a, b)
    \/ /\ ~ShorterOnAverage(cleaned_rows, b, a)
       /\ ColumnScore(cleaned_rows, a) > ColumnScore(cleaned_rows, b)

\* the key (-score, -avg_len, ci) of column a below that of column b
RightKeyBelow(cleaned_rows, a, b) ==
    \/ ColumnScore(cleaned_rows, a) > ColumnScore(cleaned_rows, b)
    \/ /\ ColumnScore(cleaned_rows, a) = ColumnScore(cleaned_rows, b)
       /\ \/ ShorterOnAverage(cleaned_rows, b, a)
          \/ ~ShorterOnAverage(cleaned_rows, a, b) /\ a < b

\* the key (-avg_len, -score) of column a below that of column b
LeftKeyBelow(cleaned_rows, a, b) ==
    \/ ShorterOnAverage(cleaned_rows, b, a)
    \/ /\ ~ShorterOnAverage(cleaned_rows, a, b)
       /\ ColumnScore(cleaned_rows, a) > ColumnScore(cleaned_rows, b)

\* ob_candidates[0][2] after the sort: the sort is stable and the candidates
\* are listed by their index
ObjectionColumn(cleaned_rows, cols) ==
    CHOOSE a \in cols :
        \A b \in cols \ {a} : \/ ObjectionKeyBelow(cleaned_rows, a, b)
                              \/ ~ObjectionKeyBelow(cleaned_rows, b, a) /\ a < b

\* right_candidates[0][2] after the sort
RightRemarkColumn(cleaned_rows, cols) ==
    CHOOSE a \in cols : \A b \in cols \ {a} : RightKeyBelow(cleaned_rows, a, b)

\* rem_candidates[0][2] after the sort
LeftRemarkColumn(cleaned_rows, cols) ==
    CHOOSE a \in cols :
        \A b \in cols \ {a} : \/ LeftKeyBelow(cleaned_rows, a, b)
                              \/ ~LeftKeyBelow(cleaned_rows, b, a) /\ a < b

\* <<ob_idx, rem_idx>> with ob_idx in hand, or <<>> when rem_idx is None
InferredWith(cleaned_rows, populated, ob_idx) ==
    IF {ci \in populated : ci > ob_idx} # {}
    THEN <<ob_idx, RightRemarkColumn(cleaned_rows, {ci \in populated : ci > ob_idx})>>
    ELSE IF populated \ {ob_idx} # {}
    THEN <<ob_idx, LeftRemarkColumn(cleaned_rows, populated \ {ob_idx})>>
    ELSE <<>>

\* the mutant of InferredColumns: the objection column the one of longest text
InferredColumnsLongestFirst(cleaned_rows) ==
    IF NumColumns(cleaned_rows) < 2 THEN <<>>
    ELSE InferredWith(cleaned_rows, PopulatedColumns(cleaned_rows),
                      LeftRemarkColumn(cleaned_rows, PopulatedColumns(cleaned_rows)))

\* the columns of a table read without a header: <<ob_idx, rem_idx>>, or <<>>
\* when the table is skipped; avg_len is total / score, compared by products
InferredColumns(cleaned_rows) ==
    IF NumColumns(cleaned_rows) < 2 THEN <<>>
    ELSE InferredWith(cleaned_rows, PopulatedColumns(cleaned_rows),
                      ObjectionColumn(cleaned_rows, PopulatedColumns(cleaned_rows)))

\* the mutant of ContinuationColumns: a table without a header is read whether
\* or not a header was seen before it
ContinuationColumnsAnywhere(seen_header, cleaned_rows) ==
    IF ~ReSearch(ObjectionHint, RowsText(cleaned_rows)).found THEN <<>>
    ELSE InferredColumns(cleaned_rows)

\* the columns of a table in which no header was found: <<ob_idx, rem_idx>>, or
\* <<>> when the table is skipped
ContinuationColumns(seen_header, cleaned_rows) ==
    IF ~seen_header THEN <<>>
    ELSE IF ~ReSearch(ObjectionHint, RowsText(cleaned_rows)).found THEN <<>>
    ELSE InferredColumns(cleaned_rows)

\* how a table is read: <<ob_idx, rem_idx, start_idx, header>>, header telling
\* that its header row was found, or <<>> when it is skipped, the result of
\* the search of the header in hand
TableReadWith(seen_header, cleaned_rows, header, continued) ==
    IF header # <<>> THEN header \o <<TRUE>>
    ELSE IF continued = <<>> THEN <<>>
    ELSE continued \o <<0, FALSE>>

\* how a table is read, from cleaned_rows on
TableRead(seen_header, cleaned_rows) ==
    IF cleaned_rows = <<>> \/ IsDocketTable(cleaned_rows) THEN <<>>
    ELSE TableReadWith(seen_header, cleaned_rows, HeaderColumns(cleaned_rows),
                       ContinuationColumns(seen_header, cleaned_rows))

\* row[ci] if ci < len(row) else ""
CellAt(row, ci) == IF ci < Len(row) THEN row[ci + 1] ELSE <<>>

\* the cells of the row, other than that of the objection, that hold a text
RemarkCells(row, ob_idx) == {ci \in 0..(Len(row) - 1) : ci # ob_idx /\ row[ci + 1] # <<>>}

\* the first of the longest of the cells, "" when there is none
LongestCell(row, cells) ==
    IF cells = {} THEN <<>>
    ELSE row[Min({ci \in cells : \A cj \in cells : Len(row[cj + 1]) <= Len(row[ci + 1])}) + 1]

\* rem of the row before it is stripped
RowRemark(row, ob_idx, rem) ==
    IF rem # <<>> THEN rem ELSE LongestCell(row, RemarkCells(row, ob_idx))

\* the tests on which the loop over the rows goes on to the next row
IsNoRow(ob, rem, combined) ==
    \/ ob = <<>> /\ rem = <<>>
    \/ ReSearch(ObjectionsWord, combined).found /\ ReSearch(RemarksWord, combined).found
    \/ ReFullMatch(LitI("Page"), rem)
    \/ ReSearch(ThePatentOffice, rem).found /\ ob = <<>>
    \/ ReSearch(ThePatentOffice, ob).found /\ ReSearch(ThePatentOffice, rem).found
    \/ ReSearch(PageOf, ob).found
    \/ ReSearch(PageOf, rem).found
    \/ ReSearch(ThePatentOffice, ob).found /\ rem = <<>>

\* part_split[0]: rem up to the first marker
BeforeMarker(rem, m) == IF m.found THEN SubSeq(rem, 1, m.s - 1) ELSE rem

\* rem_before
RemBefore(rem) == Strip(BeforeMarker(rem, ReSearch(PartIVMarker, rem)), WS)

\* rows with rem appended to the remark of rows[-1]
WithRemark(rows, rem) ==
    [rows EXCEPT ![Len(rows)] =
        <<@[1], Strip(@[2] \o (IF @[2] # <<>> THEN <<"\n">> ELSE <<>>) \o rem, WS)>>]

\* rows after the row of the marker
RowsAtMarker(rows, rem_before) ==
    IF rem_before # <<>> /\ rows # <<>> THEN WithRemark(rows, rem_before) ELSE rows

\* rows after a row that is neither skipped nor that of the marker
RowsWith(rows, ob, rem) ==
    IF ob # <<>> THEN Append(rows, <<ob, rem>>)
    ELSE IF rem # <<>> /\ rows # <<>> THEN WithRemark(rows, rem)
    ELSE rows

\* the scan after the body of the loop over cleaned_rows[start_idx:] for one
\* row, ob and rem stripped and combined in hand
RowAssembled(scan, ob, rem, combined) ==
    IF IsNoRow(ob, rem, combined)
    THEN [scan EXCEPT !.ob = ob, !.rem = rem, !.row = @ + 1]
    ELSE IF ReSearch(PartIVMarker, combined).found
    THEN [scan EXCEPT !.ob = ob, !.rem = rem, !.stop_scan = TRUE,
                      !.rows = RowsAtMarker(@, RemBefore(rem))]
    ELSE [scan EXCEPT !.ob = ob, !.rem = rem, !.row = @ + 1, !.rows = RowsWith(@, ob, rem)]

\* the scan after one row, ob and rem stripped
RowStripped(scan, ob, rem) == RowAssembled(scan, ob, rem, Strip(ob \o <<" ">> \o rem, WS))

\* the scan after the row of the table that is read with the columns
\* scan.cols
RowScanned(scan, row) ==
    RowStripped(scan, Strip(CellAt(row, scan.cols[1]), WS),
                Strip(RowRemark(row, scan.cols[1], CellAt(row, scan.cols[2])), WS))

\* \bPage\s+\d+\s+of\s+\d+\b
PageOfWord ==
    Cat(<<WordB, LitI("Page"), Sp1, Plus(In(Digit)), Sp1, LitI("of"), Sp1, Plus(In(Digit)),
          WordB>>)

\* \bTHE\s+PATENT\s+OFFICE\b
ThePatentOfficeWord ==
    Cat(<<WordB, LitI("THE"), Sp1, LitI("PATENT"), Sp1, LitI("OFFICE"), WordB>>)

\* ^\s*/?\s*Objections?\s*/?\s*Remarks?\s*$
HeaderText ==
    Cat(<<Bos, Sp, Opt(Lit("/")), Sp, LitI("Objection"), Opt(LitI("s")), Sp, Opt(Lit("/")), Sp,
          LitI("Remark"), Opt(LitI("s")), Sp, Eos>>)

\* ob and rem without page numbers, Devanagari and the name of the office
Unstamped(s) ==
    Strip(ReSub(ThePatentOfficeWord, <<>>,
                ReSub(Plus(In(Devanagari)), <<>>, ReSub(PageOfWord, <<>>, s))),
          {" ", "-", ":", "/", "\n", "\t"})

\* ob2
CleanedObjection(ob) ==
    Strip(ReSub(Rep(In({" ", "\t"}), 2, -1), <<" ">>, ReSub(HeaderText, <<>>, Unstamped(ob))), WS)

\* the lines of rem2 that hold a text, stripped
StrippedTextLines(ls) ==
    SelectSeq([i \in DOMAIN ls |-> Strip(ls[i], WS)], LAMBDA ln : ln # <<>>)

\* rem2
CleanedRemark(rem) ==
    Join(<<"\n">>,
         StrippedTextLines(SplitLines(
             Strip(ReSub(Cat(<<Sp, Opt(In({"-", NDash, MDash})), Sp, LitI("IV"), Sp,
                               Opt(Lit(":")), Sp, Eos>>), <<>>,
                   ReSub(Cat(<<Bol, Sp, Star(In({"-", "/"})), Sp,
                               Opt(Cat(<<LitI("PART"), Sp, Opt(In({"-", NDash, MDash})), Sp>>)),
                               LitI("IV"), Sp, Opt(Lit(":")), Sp, Eol>>), <<>>,
                         ReSub(HeaderText, <<>>, Unstamped(rem)))),
                   {" ", "-", ":", "/", "\n", "\t"}))))

RECURSIVE CleanedPairs(_, _)
\* cleaned_pairs of the rows from row k on
CleanedPairs(rows, k) ==
    IF k > Len(rows) THEN <<>>
    ELSE (IF CleanedObjection(rows[k][1]) = <<>> /\ CleanedRemark(rows[k][2]) = <<>> THEN <<>>
          ELSE << <<CleanedObjection(rows[k][1]), CleanedRemark(rows[k][2])>> >>)
         \o CleanedPairs(rows, k + 1)

\* ------------------------------------------------------------------------
\* SpecTableScan: extract_formal_requirements_rows_from_pdf on one PDF, a
\* step for each turn of its loops over the pages, the tables of a page and
\* the rows of a table.  out holds the variables of the function: page,
\* table and row are the indices, from 0, of the page, table and row that the
\* loops come to next, cols is <<ob_idx, rem_idx>> of the table that is read,
\* header tells that its header row was found, ob and rem are those of the
\* row read last.
\* ------------------------------------------------------------------------
MaxScanPages == 2

\* cleaned_rows of the table that the scan is at
TableAt(pdf, scan) == CleanedRows(pdf[scan.page + 1].tables[scan.table + 1])

\* the scan at the top of the loop over the pages
ScanStart ==
    [rows |-> <<>>, stop_scan |-> FALSE, in_formal |-> FALSE, seen_header |-> FALSE,
     page |-> 0, table |-> 0, row |-> 0, cols |-> <<>>, header |-> FALSE,
     ob |-> <<>>, rem |-> <<>>]

\* a page that is not in the formal section is passed over
SkipPage ==
    /\ pc = "pages"
    /\ ~out.stop_scan /\ out.page < Len(input)
    /\ ~out.in_formal /\ ~ReSearch(FormalSection, input[out.page + 1].text).found
    /\ out' = [out EXCEPT !.page = @ + 1]
    /\ UNCHANGED <<pc, input>>

\* the loop over the tables of a page of the formal section begins
OpenPage ==
    /\ pc = "pages"
    /\ ~out.stop_scan /\ out.page < Len(input)
    /\ out.in_formal \/ ReSearch(FormalSection, input[out.page + 1].text).found
    /\ out' = [out EXCEPT !.in_formal = TRUE, !.table = 0]
    /\ pc' = "tables"
    /\ UNCHANGED input

\* the scan after the top of the body of the loop over the tables, how the
\* table is read in hand
TableOpened(scan, read) ==
    IF read = <<>> THEN [scan EXCEPT !.table = @ + 1, !.cols = <<>>, !.header = FALSE]
    ELSE [scan EXCEPT !.cols = <<read[1], read[2]>>, !.row = read[3], !.header = read[4],
                      !.seen_header = @ \/ read[4]]

\* a table is skipped, or the loop over its rows begins
OpenTable ==
    /\ pc = "tables"
    /\ ~out.stop_scan /\ out.table < Len(input[out.page + 1].tables)
    /\ out' = TableOpened(out, TableRead(out.seen_header, TableAt(input, out)))
    /\ pc' = IF out'.cols = <<>> THEN "tables" ELSE "rows"
    /\ UNCHANGED input

\* the body of the loop over the rows, for one row
ReadRow ==
    /\ pc = "rows"
    /\ out.row < Len(TableAt(input, out))
    /\ out' = RowScanned(out, TableAt(input, out)[out.row + 1])
    /\ pc' = IF out'.stop_scan THEN "tables" ELSE "rows"
    /\ UNCHANGED input

\* the loop over the rows ends
CloseTable ==
    /\ pc = "rows"
    /\ out.row >= Len(TableAt(input, out))
    /\ out' = [out EXCEPT !.table = @ + 1]
    /\ pc' = "tables"
    /\ UNCHANGED input

\* the loop over the tables ends, and the loop over the pages with it where
\* the scan is stopped or the text of the page holds the marker
ClosePage ==
    /\ pc = "tables"
    /\ out.stop_scan \/ out.table >= Len(input[out.page + 1].tables)
    /\ out' = [out EXCEPT !.page = @ + 1]
    /\ pc' = IF out.stop_scan \/ ReSearch(PartIVMarker, input[out.page + 1].text).found
             THEN "scanned" ELSE "pages"
    /\ UNCHANGED input

\* the loop over the pages ends with the last page
ClosePages ==
    /\ pc = "pages"
    /\ out.stop_scan \/ out.page >= Len(input)
    /\ pc' = "scanned"
    /\ UNCHANGED <<input, out>>

\* cleaned_pairs, deduped and merged: the rows returned
ReturnRows ==
    /\ pc = "scanned"
    /\ out' = [out EXCEPT !.rows = FormalRowsOf(CleanedPairs(out.rows, 1))]
    /\ pc' = "returned"
    /\ UNCHANGED input

NextTableScan ==
    \/ SkipPage \/ OpenPage \/ OpenTable \/ ReadRow \/ CloseTable \/ ClosePage
    \/ ClosePages \/ ReturnRows

\* the tables of the model
ScanTables ==
    [ headed    |-> << <<Chars("Objections"), Chars("Remarks")>>,
                       <<Chars("Form 3"), Chars("Not filed")>>,
                       <<Chars("Form 5"), Chars("Late")>> >>,
      marked    |-> << <<Chars("Objections"), Chars("Remarks")>>,
                       <<Chars("Form 3"), Chars("Not filed")>>,
                       <<Chars("Form 5"), Chars("Unsigned. PART-IV DOCUMENTS ON RECORD")>>,
                       <<Chars("Form 26"), Chars("D1")>> >>,
      cited     |-> << <<Chars("Objections"), Chars("Remarks")>>,
                       <<Chars("Form 3"), Chars("Not filed")>>,
                       <<Chars("Objections raised"),
                         Chars("Remarks as per the documents on record")>>,
                       <<Chars("Form 5"), Chars("Late")>> >>,
      merged    |-> << <<Chars("Objections and Remarks of the examiner")>>,
                       <<Chars("Sl"), Chars("Objections"), Chars("Remarks")>>,
                       <<Chars("1"), Chars("Form 1"), Chars("Unsigned")>> >>,
      continued |-> << <<Chars("Form 18"), Chars("Request not filed in time")>>,
                       <<Chars("Power of Attorney"), Chars("Not on record")>> >>,
      leftward  |-> << <<Chars("Stamp duty is not paid"), Chars("Form 26")>> >>,
      numbered  |-> << <<Chars("1"), Chars("Form 1"), Chars("Signature missing")>>,
                       <<Chars("2"), Chars("Form 2"), <<>>>> >>,
      unhinted  |-> << <<Chars("Note"), Chars("See annexure")>> >>,
      single    |-> << <<Chars("Form 3"), <<>>>>, <<Chars("Form 5"), <<>>>> >>,
      orphaned  |-> << <<Chars("Objections"), Chars("Remarks")>>,
                       <<<<>>, Chars("Fee not paid")>>,
                       <<Chars("Form 3"), Chars("Not filed")>>,
                       <<<<>>, Chars("Filed late")>> >>,
      docket    |-> << <<Chars("Docket No"), Chars("Date")>>,
                       <<Chars("Objections"), Chars("Remarks")>>,
                       <<Chars("Form 9"), Chars("Early")>> >> ]

\* the pages of the model
ScanPages ==
    LET page(text, tables) == [text |-> text, tables |-> tables]
        t == ScanTables
    IN { page(Chars("FIRST EXAMINATION REPORT"), <<t.headed>>),
         page(Chars("PART-III: FORMAL REQUIREMENTS"), <<t.continued, t.headed, t.continued>>),
         page(Chars("PART - III FORMAL REQUIREMENTS"), <<t.marked, t.headed>>),
         page(Chars("PART III: DETAILS OF FORMAL REQUIREMENTS"), <<t.orphaned, t.cited, t.unhinted>>),
         page(Chars("Continued"), <<t.leftward, t.numbered, t.single>>),
         page(Chars("PART-III FORMAL REQUIREMENTS\nPART-IV: DOCUMENTS ON RECORD"),
              <<t.docket, t.merged>>) }

\* the PDFs of the model: up to MaxScanPages of the pages
ScanPdfs == UNION {[1..n -> ScanPages] : n \in 1..MaxScanPages}

InitTableScan == pc = "pages" /\ input \in ScanPdfs /\ out = ScanStart

SpecTableScan == InitTableScan /\ [][NextTableScan]_vars

\* the marker is found in the objection and the remark of a row, combined
MarkerRead(ob, rem) == ReSearch(PartIVMarker, Strip(ob \o <<" ">> \o rem, WS)).found

\* C16: once a row that holds the PART-IV / DOCUMENTS ON RECORD marker is
\* read, the scan of the document is stopped, so that no later row, table or
\* page is read
C16_MarkerRowHalts == MarkerRead(out.ob, out.rem) => out.stop_scan

\* the last of the rows is the row <<ob, rem>>
LastRowIs(rows, ob, rem) == rows # <<>> /\ rows[Len(rows)] = <<ob, rem>>

\* C17: the row whose remark holds the marker is kept with its own objection
\* category, its remark cut at the marker
C17_MarkerRowKept ==
    pc # "returned" /\ out.stop_scan /\ out.ob # <<>> /\ ReSearch(PartIVMarker, out.rem).found
        => LastRowIs(out.rows, out.ob, RemBefore(out.rem))

\* the labels Objection(s) and Remark(s) are found in two different cells of
\* the row
LabelsApart(row) ==
    \E a, b \in DOMAIN row :
        /\ a # b
        /\ ReSearch(ObjectionsWord, row[a]).found
        /\ ReSearch(RemarksWord, row[b]).found

\* the first of the first 8 rows, counted from 1, that holds the two labels
\* apart, 0 when none does
FirstLabelled(cleaned_rows) ==
    IF \A r \in 1..Min({8, Len(cleaned_rows)}) : ~LabelsApart(cleaned_rows[r]) THEN 0
    ELSE Min({r \in 1..Min({8, Len(cleaned_rows)}) : LabelsApart(cleaned_rows[r])})

\* the pages, counted from 1, that carry the PART-III FORMAL REQUIREMENTS marker
FormalPages(pdf) == {p \in DOMAIN pdf : ReSearch(FormalSection, pdf[p].text).found}

\* a table of the formal section before table number table of page number
\* page, both counted from 0, has a header row
HeaderedBefore(pdf, page, table) ==
    \E p \in 1..(page + 1) : \E t \in DOMAIN pdf[p].tables :
        /\ p < page + 1 \/ t < table + 1
        /\ \E f \in FormalPages(pdf) : f <= p
        /\ ~IsDocketTable(CleanedRows(pdf[p].tables[t]))
        /\ FirstLabelled(CleanedRows(pdf[p].tables[t])) > 0

\* what C18 tells of the table cleaned_rows that is read
ContinuedAsClaimed(pdf, page, table, header, cleaned_rows) ==
    /\ \E f \in FormalPages(pdf) : f <= page + 1
    /\ ~header => /\ HeaderedBefore(pdf, page, table)
                  /\ ReSearch(ObjectionHint, RowsText(cleaned_rows)).found

\* C18: a table without a header row is read only after a header row was
\* found in an earlier table of the formal section and when its body holds
\* an objection-category phrase, and no table is read on a page before the
\* page of the PART-III FORMAL REQUIREMENTS marker
C18_ContinuationAfterHeader ==
    pc = "rows" => ContinuedAsClaimed(input, out.page, out.table, out.header,
                                      TableAt(input, out))

\* rows of a table without a header are read, the first table of its page
\* having been passed over
C18_Witness == pc = "rows" /\ ~out.header /\ out.table > 1 /\ out.row > 0 /\ out.rows # <<>>

\* what C19 tells of the table cleaned_rows that is read with the columns
\* cols, first its row number h, counted from 1, the row that comes next
HeaderAsClaimed(cleaned_rows, header, cols, row, h) ==
    /\ header <=> h > 0
    /\ header => /\ cols[1] # cols[2]
                 /\ ReSearch(ObjectionsWord, CellAt(cleaned_rows[h], cols[1])).found
                 /\ ReSearch(RemarksWord, CellAt(cleaned_rows[h], cols[2])).found
                 /\ row >= h

\* HeaderAsClaimed of the table and the scan
HeaderHere(cleaned_rows, scan) ==
    HeaderAsClaimed(cleaned_rows, scan.header, scan.cols, scan.row, FirstLabelled(cleaned_rows))

\* C19: the header of a table is the first of its first 8 rows that holds
\* Objection(s) and Remark(s) in two different cells; the two cells give the
\* two columns, which differ, and only the rows after it are read
C19_HeaderInTwoCells == pc = "rows" => HeaderHere(TableAt(input, out), out)

\* the row after the header is read, the header being the second row
SecondRowHeader(cleaned_rows, scan) ==
    scan.header /\ FirstLabelled(cleaned_rows) = 2 /\ scan.row = 3 /\ ~LabelsApart(cleaned_rows[1])
       /\ ReSearch(ObjectionsWord, cleaned_rows[1][1]).found
       /\ ReSearch(RemarksWord, cleaned_rows[1][1]).found

\* a table is read whose first row holds both labels in one cell
C19_Witness == pc = "rows" /\ SecondRowHeader(TableAt(input, out), out)

\* what C20 tells of the columns ob and rem inferred for cleaned_rows
InferredAsClaimed(cleaned_rows, populated, ob, rem) ==
    /\ ob \in populated /\ rem \in populated /\ ob # rem
    /\ \A c \in populated : ~ShorterOnAverage(cleaned_rows, c, ob)
    /\ \A c \in populated :
          ~ShorterOnAverage(cleaned_rows, ob, c)
              => ColumnScore(cleaned_rows, c) <= ColumnScore(cleaned_rows, ob)
    /\ IF \E c \in populated : c > ob
       THEN /\ rem > ob
            /\ \A c \in populated : c > ob => ColumnScore(cleaned_rows, c) <= ColumnScore(cleaned_rows, rem)
       ELSE \A c \in populated \ {ob} : ~ShorterOnAverage(cleaned_rows, rem, c)

\* InferredAsClaimed of the table and the columns
InferredHere(cleaned_rows, cols) ==
    InferredAsClaimed(cleaned_rows, PopulatedColumns(cleaned_rows), cols[1], cols[2])

\* C20: in a table read without a header the objection column is the
\* populated column of smallest average length, of the higher count among
\* equals, the remark column the populated column to its right of highest
\* count, or of longest average where none is to its right; the two differ,
\* so that a table of fewer than two populated columns is not read
C20_InferredColumns == pc = "rows" /\ ~out.header => InferredHere(TableAt(input, out), out.cols)

\* a table is read without a header, its remark column left of its objection
\* column
C20_Witness == pc = "rows" /\ ~out.header /\ out.cols[2] < out.cols[1] /\ out.row > 0

\* the remark of the last of the rows ends with rem, on a line of its own
RemarkAppended(rows, rem) ==
    /\ rows # <<>>
    /\ Len(rows[Len(rows)][2]) >= Len(rem)
    /\ SubSeq(rows[Len(rows)][2], Len(rows[Len(rows)][2]) - Len(rem) + 1,
              Len(rows[Len(rows)][2])) = rem
    /\ Len(rows[Len(rows)][2]) > Len(rem)
          => rows[Len(rows)][2][Len(rows[Len(rows)][2]) - Len(rem)] = "\n"

\* C21: a row of a table whose objection is empty and whose remark is not,
\* and that is neither passed over as noise nor the row of the marker, leaves
\* its remark in rows, appended on a line of its own to the remark of the row
\* appended last
C21_ContinuationKept ==
    /\ pc # "returned" /\ out.ob = <<>> /\ out.rem # <<>>
    /\ ~IsNoRow(out.ob, out.rem, out.rem) /\ ~MarkerRead(out.ob, out.rem)
    => RemarkAppended(out.rows, out.rem)

\* ------------------------------------------------------------------------
\* SpecObjections: _split_objections on a report of a few lines: headings
\* alone on their line, a line of body, lines that open with "<HEADING>:",
\* and the line that opens the formal requirements.  SpecNumbering:
\* parse_fer_pdf on the reports that do not reach the formal requirements.
\* ------------------------------------------------------------------------
MaxObjectionLines == 3

\* the lines of the reports: kind tells what the line is, head the heading
\* that it holds, in the canonical form, rest what follows the heading
ObjectionLines ==
    { [line |-> Chars("NOVELTY"), kind |-> "strict", head |-> Chars("NOVELTY"), rest |-> <<>>],
      [line |-> Chars("Inventive Step:"), kind |-> "strict", head |-> Chars("INVENTIVE STEP"),
       rest |-> <<>>],
      [line |-> Chars("Claim 1 lacks novelty over D1"), kind |-> "body", head |-> <<>>,
       rest |-> <<>>],
      [line |-> Chars("Scope: claims are broad"), kind |-> "inline", head |-> Chars("SCOPE"),
       rest |-> Chars("claims are broad")],
      [line |-> Chars("Novelty: not new"), kind |-> "inline", head |-> Chars("NOVELTY"),
       rest |-> Chars("not new")],
      [line |-> Chars("PART-III FORMAL REQUIREMENTS"), kind |-> "formal", head |-> <<>>,
       rest |-> <<>>] }

\* the reports: up to MaxObjectionLines of the lines
ObjectionTexts ==
    { Join(<<"\n">>, [i \in DOMAIN ls |-> ls[i].line]) :
        ls \in UNION {[1..n -> ObjectionLines] : n \in 1..MaxObjectionLines} }

InitObjections == pc = "file" /\ input \in ObjectionTexts /\ out = <<>>

\* splits = _split_objections(text)
SplitObjections ==
    /\ pc = "file"
    /\ out' = _split_objections(input)
    /\ pc' = "split"
    /\ UNCHANGED input

NextObjections == SplitObjections

SpecObjections == InitObjections /\ [][NextObjections]_vars

\* the reports that do not reach the formal requirements
NumberingTexts ==
    { Join(<<"\n">>, [i \in DOMAIN ls |-> ls[i].line]) :
        ls \in UNION {[1..n -> {l \in ObjectionLines : l.kind # "formal"}] :
                        n \in 1..MaxObjectionLines} }

InitNumbering == pc = "file" /\ input \in NumberingTexts /\ out = <<>>

SpecNumbering == InitNumbering /\ [][ParseFer]_vars

\* the line of the reports that a line of the text is
LineOf(line) == CHOOSE l \in ObjectionLines : l.line = line

\* the lines of a report with what they are
LinesOf(text) == [i \in DOMAIN SplitLines(text) |-> LineOf(SplitLines(text)[i])]

\* the lines before the line that opens the formal requirements
BeforeFormal(ls) ==
    IF \A i \in DOMAIN ls : ls[i].kind # "formal" THEN ls
    ELSE Take(ls, Min({i \in DOMAIN ls : ls[i].kind = "formal"}) - 1)

\* the lines of that kind
LinesOfKind(ls, kind) == {i \in DOMAIN ls : ls[i].kind = kind}

\* the lines at which an objection begins: the headings alone on their line,
\* and the lines that open with "<HEADING>:" only when there is none of those
HeadingsAt(ls) ==
    IF LinesOfKind(ls, "strict") # {} THEN LinesOfKind(ls, "strict")
    ELSE LinesOfKind(ls, "inline")

\* the line after the last line of the objection that begins at line i
EndOf(ls, at, i) == Min({j \in at : j > i} \cup {Len(ls) + 1})

\* the objection that begins at line i: its heading, and as its body what
\* follows the heading up to the next heading or the end
ObjectionAt(ls, at, i) ==
    [head |-> ls[i].head,
     body |-> Strip(Join(<<"\n">>, <<ls[i].rest>>
                                   \o [j \in 1..(EndOf(ls, at, i) - i - 1) |-> ls[i + j].line]),
                    WS)]

\* the objections that begin at the lines at, in the order of the lines,
\* those of empty body left out
ObjectionsAt(ls, at) ==
    SelectSeq([k \in 1..Cardinality(at) |-> ObjectionAt(ls, at, SortedInts(at)[k])],
              LAMBDA o : o.body # <<>>)

\* the objections of a report, read off its lines
ObjectionsOfLines(text) ==
    ObjectionsAt(BeforeFormal(LinesOf(text)), HeadingsAt(BeforeFormal(LinesOf(text))))

\* the objections bear the numbers 1, 2, ... and the headings of expected, in
\* its order
NumberedInOrder(objections, expected) ==
    /\ Len(objections) = Len(expected)
    /\ \A i \in DOMAIN objections :
          /\ objections[i].number = i
          /\ objections[i].heading = StrTitle(expected[i].head)

\* C22: the i-th objection of a parse result has the number i, whether or
\* not a heading of empty body was passed over, and the objections come in
\* the order of their headings in the text
C22_NumberedByDiscovery ==
    pc = "parsed" => NumberedInOrder(out.objections.items, ObjectionsOfLines(input))

\* two objections, the first one later in the canonical order than the second
C22_Witness ==
    /\ pc = "parsed"
    /\ Len(out.objections.items) = 2
    /\ out.objections.items[1].heading = Chars("Scope")
    /\ out.objections.items[1].number = 1
    /\ out.objections.items[2].heading = Chars("Novelty")
    /\ out.objections.items[2].number = 2

\* what C23 tells of the parts split off the lines ls
StrictFirst(parts, ls) ==
    IF LinesOfKind(ls, "strict") # {}
    THEN /\ Len(parts) <= Cardinality(LinesOfKind(ls, "strict"))
         /\ \A k \in DOMAIN parts : \E i \in LinesOfKind(ls, "strict") : parts[k].head = ls[i].head
    ELSE /\ Len(parts) = Cardinality(LinesOfKind(ls, "inline"))
         /\ \A k \in DOMAIN parts : \E i \in LinesOfKind(ls, "inline") : parts[k].head = ls[i].head

\* C23: when a heading stands alone on a line of the text, the text is split
\* at such headings only and a "<HEADING>:" within a line begins no
\* objection; the text is split at "<HEADING>:" only when no heading stands
\* alone on a line
C23_StrictBeforeLenient ==
    pc = "split" => StrictFirst(out, BeforeFormal(LinesOf(input)))

\* a line with "<HEADING>:" lies in the body of a heading alone on its line
InlineInBody(parts, ls) ==
    /\ LinesOfKind(ls, "strict") # {} /\ LinesOfKind(ls, "inline") # {}
    /\ \E k \in DOMAIN parts : Occurs(Chars("Scope:"), parts[k].body)

\* the two cases of C23: a "<HEADING>:" in the body of a strict heading, and
\* a text split at "<HEADING>:"
C23_Witness ==
    /\ pc = "split"
    /\ \/ InlineInBody(out, BeforeFormal(LinesOf(input)))
       \/ LinesOfKind(LinesOf(input), "strict") = {} /\ Len(out) = 2

\* what C24 tells of the parts split off the lines ls at the headings at
BodiesBetween(parts, ls, at) ==
    /\ Len(parts) = Len(ObjectionsAt(ls, at))
    /\ \A k \in DOMAIN parts : parts[k].body = ObjectionsAt(ls, at)[k].body
    /\ \A k \in DOMAIN parts : ~Occurs(Chars("FORMAL REQUIREMENTS"), parts[k].body)

\* C24: the body of an objection is the text from the end of its heading up
\* to the next heading, the end of the text or the line that opens the formal
\* requirements, whichever comes first, so that no body holds text of the
\* formal requirements and no two bodies share text
C24_BodyBetweenHeadings ==
    pc = "split" =>
        BodiesBetween(out, BeforeFormal(LinesOf(input)), HeadingsAt(BeforeFormal(LinesOf(input))))

\* a body is cut at the line that opens the formal requirements, text
\* coming after that line
C24_Witness ==
    /\ pc = "split"
    /\ Len(out) = 1
    /\ Len(LinesOf(input)) = 3
    /\ LinesOf(input)[2].kind = "formal"
    /\ LinesOf(input)[3].kind = "body"
    /\ out[1].body = Chars("claims are broad")

(***************************************************************************)
(* PriorArtAbstractExtractor: prior_art_parser, the lines of a prior-art    *)
(* PDF and the three strategies of extract_prior_art_abstract_from_pdf.     *)
(***************************************************************************)
\* re.match: a match at the start of the text
ReMatch(re, s) == ReEnds(re, s, 1) # <<>>

\* \s*\.?  as in  Int\s*\.?\s*Cl\s*\.?
SpDot == Cat(<<Sp, Opt(Lit("."))>>)

\* \.?
OptDot == Opt(Lit("."))

\* \s*,?
SpComma == Cat(<<Sp, Opt(Lit(","))>>)

\* _STOP_HEADINGS
_STOP_HEADINGS ==
    Cat(<< Bos,
           Alt(<< Cat(<<LitI("what"), Sp1, LitI("is"), Sp1, LitI("claimed")>>),
                  Cat(<<LitI("claim"), Opt(LitI("s"))>>),
                  Cat(<<LitI("we"), Sp1, LitI("claim")>>),
                  Cat(<<LitI("claim"), Sp, Plus(In(Digit))>>),
                  Cat(<<LitI("detailed"), Sp1, LitI("description")>>),
                  Cat(<<LitI("description"),
                        Opt(Cat(<<Sp1, LitI("of"), Sp1, LitI("the"), Sp1, LitI("drawing"),
                                  Opt(LitI("s"))>>))>>),
                  Cat(<<LitI("brief"), Sp1, LitI("description"),
                        Opt(Cat(<<Sp1, LitI("of"), Sp1, LitI("the"), Sp1, LitI("drawing"),
                                  Opt(LitI("s"))>>))>>),
                  Cat(<<LitI("technical"), Sp1, LitI("field")>>),
                  Cat(<<LitI("field"), Sp1, LitI("of"), Sp1, LitI("the"), Sp1,
                        LitI("invention")>>),
                  Cat(<<LitI("background"),
                        Opt(Cat(<<Sp1, LitI("of"), Sp1, LitI("the"), Sp1, LitI("invention")>>))>>),
                  Cat(<<LitI("summary"),
                        Opt(Cat(<<Sp1, LitI("of"), Sp1, LitI("the"), Sp1, LitI("invention")>>))>>),
                  LitI("introduction"),
                  Cat(<<LitI("index"), Sp1, LitI("term"), Opt(LitI("s"))>>),
                  Cat(<<LitI("keyword"), Opt(LitI("s"))>>),
                  Cat(<<LitI("example"), Opt(LitI("s"))>>),
                  Cat(<<LitI("drawing"), Opt(LitI("s"))>>),
                  Cat(<<LitI("fig"), Opt(LitI("ure")), Opt(LitI("s"))>>) >>),
           WordB >>)

\* \bRelated\s+U\.?S\.?\s+Application\s+Data\b
RelatedUSData ==
    Cat(<<WordB, LitI("Related"), Sp1, LitI("U"), OptDot, LitI("S"), OptDot, Sp1,
          LitI("Application"), Sp1, LitI("Data"), WordB>>)

\* \(\s*Continued\s*\)
ContinuedMark == Cat(<<Lit("("), Sp, LitI("Continued"), Sp, Lit(")")>>)

\* \(\s*51\s*\)\s*Int\s*\.?\s*Cl\s*\.?
IntClField ==
    Cat(<<Lit("("), Sp, Lit("51"), Sp, Lit(")"), Sp, LitI("Int"), SpDot, Sp, LitI("Cl"), SpDot>>)

\* \bInt\s*\.?\s*Cl\s*\.?\b
IntCl == Cat(<<WordB, LitI("Int"), SpDot, Sp, LitI("Cl"), SpDot, WordB>>)

\* \bU\.?S\.?\s*Cl\.?\b
USCl == Cat(<<WordB, LitI("U"), OptDot, LitI("S"), OptDot, Sp, LitI("Cl"), OptDot, WordB>>)

\* \bPat\s*\.?\s*No\s*\.?\s*[\d,]+\b
PatNo ==
    Cat(<<WordB, LitI("Pat"), SpDot, Sp, LitI("No"), SpDot, Sp, Plus(In(Digit \cup {","})),
          WordB>>)

\* \bUS\s*\d{4}/\d{6,}\s*[A-Z]\d?\s*[A-Za-z]{3}\.?\s*\d{1,2}\s*,?\s*\d{4}\b
USPublication ==
    Cat(<<WordB, LitI("US"), Sp, Rep(In(Digit), 4, 4), Lit("/"), Rep(In(Digit), 6, -1), Sp,
          In(Alpha), Opt(In(Digit)), Sp, Rep(In(Alpha), 3, 3), OptDot, Sp,
          Rep(In(Digit), 1, 2), SpComma, Sp, Rep(In(Digit), 4, 4), WordB>>)

\* [A-Za-z]{3,9}\.?\s*\d{1,2}\s*,?\s*\d{4}\s*,?\s*now
DatedNow ==
    Cat(<<Rep(In(Alpha), 3, 9), OptDot, Sp, Rep(In(Digit), 1, 2), SpComma, Sp,
          Rep(In(Digit), 4, 4), SpComma, Sp, LitI("now")>>)

\* \b[A-Za-z]{3,9}\.?\s*\d{1,2}\s*,?\s*\d{4}\s*,?\s*now\s*Pat\s*\.?\s*No\s*\.?\s*[\d,]+
\* \s*,?\s*which\s+is\s+a\b
NowPatNo ==
    Cat(<<WordB, DatedNow, Sp, LitI("Pat"), SpDot, Sp, LitI("No"), SpDot, Sp,
          Plus(In(Digit \cup {","})), SpComma, Sp, LitI("which"), Sp1, LitI("is"), Sp1,
          LitI("a"), WordB>>)

\* \b[A-Za-z]{3,9}\.?\s*\d{1,2}\s*,?\s*\d{4}\s*,?\s*now\s*,?\s*which\s+is\s+a\b
NowWhich ==
    Cat(<<WordB, DatedNow, SpComma, Sp, LitI("which"), Sp1, LitI("is"), Sp1, LitI("a"),
          WordB>>)

\* \(\s*\d{2}\s*\)\s*(?:U\.?S\.?\s*)?Cl\.?
NumberedCl ==
    Cat(<<Lit("("), Sp, Rep(In(Digit), 2, 2), Sp, Lit(")"), Sp,
          Opt(Cat(<<LitI("U"), OptDot, LitI("S"), OptDot, Sp>>)), LitI("Cl"), OptDot>>)

_strip_inline_metadata(line) ==
    Strip(SubSpaces(
        ReSub(NumberedCl, <<" ">>,
        ReSub(NowWhich, <<" ">>,
        ReSub(NowPatNo, <<" ">>,
        ReSub(USPublication, <<" ">>,
        ReSub(PatNo, <<" ">>,
        ReSub(USCl, <<" ">>,
        ReSub(IntCl, <<" ">>,
        ReSub(IntClField, <<" ">>,
        ReSub(ContinuedMark, <<" ">>,
        ReSub(RelatedUSData, <<" ">>, line))))))))))), WS)

RECURSIVE SubBetweenFrom(_, _, _, _, _)
\* re.sub of the middle one of three parts from cursor p on, m the match of
\* the three parts from p on; the search goes on before the third part, or
\* after it when it is consumed
SubBetweenAt(parts, repl, consumed, s, p, m) ==
    IF m = <<>> THEN SubSeq(s, p, Len(s))
    ELSE SubSeq(s, p, m[2] - 1) \o repl \o (IF consumed THEN Part(m, 3, s) ELSE <<>>)
         \o SubBetweenFrom(parts, repl, consumed, s, m[IF consumed THEN 4 ELSE 3])

SubBetweenFrom(parts, repl, consumed, s, p) ==
    SubBetweenAt(parts, repl, consumed, s, p, ReSearchParts(parts, s, p))

\* re.sub(r"(?<=[A-Za-z])\s+\d{1,2}\s+(?=[a-z])", " ", s)
SubInlineNumbers(s) ==
    SubBetweenFrom(<<In(Alpha), Cat(<<Sp1, Rep(In(Digit), 1, 2), Sp1>>), In(Lower)>>, <<" ">>,
                   FALSE, s, 1)

_normalize_line(line) ==
    Strip(SubSpaces(SubInlineNumbers(_strip_inline_metadata(SubSpaces(Strip(line, WS))))),
          {" ", "\t"})

\* [A-HY]\d{2}[A-Z]?\s*\d+(?:\.\d+)?/\d+(?:\.\d+)?  under re.I
ClassCode ==
    Cat(<<In({"A","B","C","D","E","F","G","H","Y","a","b","c","d","e","f","g","h","y"}),
          Rep(In(Digit), 2, 2), Opt(In(Alpha)), Sp, Plus(In(Digit)),
          Opt(Cat(<<Lit("."), Plus(In(Digit))>>)), Lit("/"), Plus(In(Digit)),
          Opt(Cat(<<Lit("."), Plus(In(Digit))>>))>>)

\* \(\s*\d[\d\s]{1,8}\.\d{2}\s*\)
ClassVersion ==
    Cat(<<Lit("("), Sp, In(Digit), Rep(In(Digit \cup WS), 1, 8), Lit("."), Rep(In(Digit), 2, 2),
          Sp, Lit(")")>>)

\* the patterns that _is_noise_line searches for
NoiseFound ==
    << \* \bsearch\s+results\b
       Cat(<<WordB, LitI("search"), Sp1, LitI("results"), WordB>>),
       \* \bEspacenet\b
       Cat(<<WordB, LitI("Espacenet"), WordB>>),
       \* https?://|www\.|espacenet\.com
       Alt(<< Cat(<<LitI("http"), Opt(LitI("s")), Lit("://")>>), LitI("www."),
              LitI("espacenet.com") >>),
       \* \b\d{1,2}:\d{2}\s*(?:AM|PM)\b
       Cat(<<WordB, Rep(In(Digit), 1, 2), Lit(":"), Rep(In(Digit), 2, 2), Sp,
             Alt(<<LitI("AM"), LitI("PM")>>), WordB>>),
       \* \bDocument\s+generated\s+on\b
       Cat(<<WordB, LitI("Document"), Sp1, LitI("generated"), Sp1, LitI("on"), WordB>>),
       \* \b(?:application|pub(?:lication)?|priority)\s*(?:no\.?|number|date)\b
       Cat(<<WordB,
             Alt(<<LitI("application"), Cat(<<LitI("pub"), Opt(LitI("lication"))>>),
                   LitI("priority")>>),
             Sp, Alt(<<Cat(<<LitI("no"), OptDot>>), LitI("number"), LitI("date")>>), WordB>>),
       \* \bkind\s+code\b
       Cat(<<WordB, LitI("kind"), Sp1, LitI("code"), WordB>>),
       \* \brelated\s+u\.?s\.?\s+application\s+data\b
       RelatedUSData,
       \* \bint\.?\s*cl\.?\b
       Cat(<<WordB, LitI("int"), OptDot, Sp, LitI("cl"), OptDot, WordB>>),
       \* \bU\.?\s*S\.?\s*C\s*I\.?\b
       Cat(<<WordB, LitI("U"), OptDot, Sp, LitI("S"), OptDot, Sp, LitI("C"), Sp, LitI("I"),
             OptDot, WordB>>),
       \* \(\s*continued\s*\)
       ContinuedMark,
       \* \bpat\.?\s*no\.?\s*[\d,]+\b
       Cat(<<WordB, LitI("pat"), OptDot, Sp, LitI("no"), OptDot, Sp,
             Plus(In(Digit \cup {","})), WordB>>) >>

\* the patterns that _is_noise_line matches the whole line with
NoiseWhole ==
    << \* Page\s+\d+\s+of\s+\d+
       Cat(<<LitI("Page"), Sp1, Plus(In(Digit)), Sp1, LitI("of"), Sp1, Plus(In(Digit))>>),
       \* \[\d{1,4}\]
       Cat(<<Lit("["), Rep(In(Digit), 1, 4), Lit("]")>>),
       \* \d{1,4}
       Rep(In(Digit), 1, 4),
       \* [A-Z]{1,3}\d{5,}[A-Z0-9]*
       Cat(<<Rep(In(Upper), 1, 3), Rep(In(Digit), 5, -1), Star(In(Upper \cup Digit))>>),
       \* \d{2,4}[/-]\d{2}[/-]\d{2,4}
       Cat(<<Rep(In(Digit), 2, 4), In({"/", "-"}), Rep(In(Digit), 2, 2), In({"/", "-"}),
             Rep(In(Digit), 2, 4)>>),
       \* \d{4}[/-]\d{1,2}[/-]\d{1,2}
       Cat(<<Rep(In(Digit), 4, 4), In({"/", "-"}), Rep(In(Digit), 1, 2), In({"/", "-"}),
             Rep(In(Digit), 1, 2)>>),
       \* \d{1,2}\s+[A-Za-z]{3,9}\s+\d{4}
       Cat(<<Rep(In(Digit), 1, 2), Sp1, Rep(In(Alpha), 3, 9), Sp1, Rep(In(Digit), 4, 4)>>),
       \* THE\s+PATENT\s+OFFICE
       Cat(<<LitI("THE"), Sp1, LitI("PATENT"), Sp1, LitI("OFFICE")>>),
       \* \(\s*\d[\d\s]{1,8}\.\d{2}\s*\)
       ClassVersion,
       \* \(\s*\d+\s*\)\s*U\.?\s*S\.?\s*C\.?\s*I\.?
       Cat(<<Lit("("), Sp, Plus(In(Digit)), Sp, Lit(")"), Sp, LitI("U"), OptDot, Sp, LitI("S"),
             OptDot, Sp, LitI("C"), OptDot, Sp, LitI("I"), OptDot>>),
       \* \(\s*\d+\s*\)\s*U\.?\s*S\.?\s*Cl\.?
       Cat(<<Lit("("), Sp, Plus(In(Digit)), Sp, Lit(")"), Sp, LitI("U"), OptDot, Sp, LitI("S"),
             OptDot, Sp, LitI("Cl"), OptDot>>),
       \* the classification code
       ClassCode,
       \* the classification code and \s*\(\s*\d{4}\.\d{2}\s*\)
       Cat(<<ClassCode, Sp, Lit("("), Sp, Rep(In(Digit), 4, 4), Lit("."), Rep(In(Digit), 2, 2),
             Sp, Lit(")")>>),
       \* (?:code(?:\s*version)?\s*;?\s*){1,4}
       Rep(Cat(<<ClassCode, Opt(Cat(<<Sp, ClassVersion>>)), Sp, Opt(Lit(";")), Sp>>), 1, 4),
       \* version\s*;\s*code(?:\s*version)?\s*;?
       Cat(<<ClassVersion, Sp, Lit(";"), Sp, ClassCode, Opt(Cat(<<Sp, ClassVersion>>)), Sp,
             Opt(Lit(";"))>>),
       \* CPC
       LitI("CPC"),
       \* \d+\s+Claims?\s*,\s*\d+\s+Drawing\s+Sheets?
       Cat(<<Plus(In(Digit)), Sp1, LitI("Claim"), Opt(LitI("s")), Sp, Lit(","), Sp,
             Plus(In(Digit)), Sp1, LitI("Drawing"), Sp1, LitI("Sheet"), Opt(LitI("s"))>>),
       \* (?:[A-Z]{1,3}\s+)?\d{1,3}(?:[,\s]\d{3})+(?:\s+[A-Z]\d?)?
       Cat(<<Opt(Cat(<<Rep(In(Upper), 1, 3), Sp1>>)), Rep(In(Digit), 1, 3),
             Plus(Cat(<<In(WS \cup {","}), Rep(In(Digit), 3, 3)>>)),
             Opt(Cat(<<Sp1, In(Upper), Opt(In(Digit))>>))>>) >>

\* _is_noise_line of the stripped line
IsNoise(s) ==
    \/ s = <<>>
    \/ \E k \in DOMAIN NoiseFound : ReSearch(NoiseFound[k], s).found
    \/ \E k \in DOMAIN NoiseWhole : ReFullMatch(NoiseWhole[k], s)
    \/ Cardinality({i \in DOMAIN s : s[i] \in Alpha}) < 2 /\ Len(s) < 8

_is_noise_line(line) == IsNoise(Strip(line, WS))

\* heading_starts
HeadingStarts ==
    { Chars("abstract"), Chars("technical field"), Chars("field of the invention"),
      Chars("background"), Chars("summary"), Chars("introduction"), Chars("keywords"),
      Chars("index terms"), Chars("brief description"), Chars("detailed description"),
      Chars("claims"), Chars("what is claimed"), Chars("drawings"), Chars("examples") }

\* str.startswith
StartsWith(s, h) == Len(s) >= Len(h) /\ SubSeq(s, 1, Len(h)) = h

\* ^\d+[\.\)]\s+[A-Z][A-Za-z ]{2,80}$
NumberedHeading ==
    Cat(<<Bos, Plus(In(Digit)), In({".", ")"}), Sp1, In(Upper), Rep(In(Alpha \cup {" "}), 2, 80),
          Eos>>)

\* _is_section_heading of the line stripped of " :-"
IsHeading(s) ==
    /\ s # <<>>
    /\ ~ReFullMatch(ClassCode, s)
    /\ \/ \E h \in HeadingStarts : StartsWith(StrLower(s), h)
       \/ /\ Len(s) <= 85 /\ s = StrUpper(s)
          /\ Cardinality({i \in DOMAIN s : s[i] \in Alpha /\ (i = 1 \/ s[i - 1] \notin Alpha)})
                 \in 1..12
       \/ ReMatch(NumberedHeading, s)

_is_section_heading(line) == IsHeading(Strip(line, {" ", ":", "-"}))

\* ^\d+[\.\)]\s+(?:a|an|the)\b  and  ^claim\s*\d+\b
ClaimStart ==
    Alt(<< Cat(<<Bos, Plus(In(Digit)), In({".", ")"}), Sp1,
                 Alt(<<LitI("a"), LitI("an"), LitI("the")>>), WordB>>),
           Cat(<<Bos, LitI("claim"), Sp, Plus(In(Digit)), WordB>>) >>)

_looks_like_claim_start(line) == ReMatch(ClaimStart, Strip(line, WS))

\* _build_lines: the lines normalized, those of noise left out
_build_lines(text) ==
    SelectSeq([i \in DOMAIN SplitLines(text) |-> _normalize_line(SplitLines(text)[i])],
              LAMBDA line : line = <<>> \/ ~_is_noise_line(line))

\* len(" ".join(parts).split())
PartsWords(parts) == WordCount(Join(<<" ">>, parts))

\* [.!?]\s*$
EndPunct == Cat(<<In({".", "!", "?"}), Sp, Eos>>)

\* \b\d+\s+claims?\s*,\s*\d+\s+drawing\s+sheets?\b
ClaimsAndSheets ==
    Cat(<<WordB, Plus(In(Digit)), Sp1, LitI("claim"), Opt(LitI("s")), Sp, Lit(","), Sp,
          Plus(In(Digit)), Sp1, LitI("drawing"), Sp1, LitI("sheet"), Opt(LitI("s")), WordB>>)

\* the loop of _collect_candidate ends after the line is appended
CollectEnds(joined, word_count) ==
    \/ word_count >= 420 /\ ReSearch(EndPunct, joined).found
    \/ word_count >= 560
    \/ word_count >= _MAX_ABSTRACT_WORDS /\ ReSearch(EndPunct, joined).found
    \/ word_count >= _MAX_ABSTRACT_WORDS + 90

\* what the body of the loop of _collect_candidate does with a line:
\* "continue", "break", or "append"
CollectLine(line, parts) ==
    IF line = <<>> \/ _is_noise_line(line) THEN "continue"
    ELSE IF ReMatch(_STOP_HEADINGS, line)
    THEN IF parts # <<>> /\ PartsWords(parts) >= 20 THEN "break" ELSE "continue"
    ELSE IF ReSearch(ClaimsAndSheets, line).found
    THEN IF parts # <<>> THEN "break" ELSE "continue"
    ELSE IF _looks_like_claim_start(line) /\ parts # <<>> /\ PartsWords(parts) >= 30 THEN "break"
    ELSE IF _is_section_heading(line) /\ Len(parts) >= 2 THEN "break"
    ELSE "append"

RECURSIVE CollectedParts(_, _, _, _)
\* parts after the loop, the loop being at lines[i], counted from 1, with
\* last the last line of its range; how tells what is done with the line
CollectedWith(lines, i, last, parts, how) ==
    IF how = "break" THEN parts
    ELSE IF how = "continue" THEN CollectedParts(lines, i + 1, last, parts)
    ELSE IF CollectEnds(Strip(Join(<<" ">>, Append(parts, lines[i])), WS),
                        PartsWords(Append(parts, lines[i])))
    THEN Append(parts, lines[i])
    ELSE CollectedParts(lines, i + 1, last, Append(parts, lines[i]))

CollectedParts(lines, i, last, parts) ==
    IF i > last THEN parts
    ELSE CollectedWith(lines, i, last, parts, CollectLine(lines[i], parts))

\* the return of _collect_candidate
CandidateOf(candidate) ==
    IF candidate = <<>> THEN <<>> ELSE _trim_words(candidate, _MAX_ABSTRACT_WORDS)

\* parts before the loop
InlineParts(inline) == IF inline # <<>> /\ ~_is_noise_line(inline) THEN <<inline>> ELSE <<>>

\* _collect_candidate; start_idx counts the lines from 0
_collect_candidate(lines, start_idx, inline_text) ==
    CandidateOf(Strip(Join(<<" ">>, CollectedParts(lines, start_idx + 1,
                                                   Min({Len(lines), start_idx + 420}),
                                                   InlineParts(_normalize_line(inline_text)))),
                      WS))

\* abs_pat, cut at its group:
\* ^(?:\[\d{1,3}\]\s*)?abstract(?:\s+of\s+the\s+disclosure)?\b\s*[:\-]?\s*(.*)$
AbsPat ==
    << Cat(<<Bos, Opt(Cat(<<Lit("["), Rep(In(Digit), 1, 3), Lit("]"), Sp>>)), LitI("abstract"),
             Opt(Cat(<<Sp1, LitI("of"), Sp1, LitI("the"), Sp1, LitI("disclosure")>>)), WordB, Sp,
             Opt(In({":", "-"})), Sp>>),
       Star(Dot),
       Eos >>

\* the words of a text
Words(text) == WordCount(text)

\* the first element of _heading_candidate_score
HeadingFit(words, text) ==
    (IF words >= 35 /\ words <= 350 THEN 4 ELSE IF words >= 15 /\ words <= 500 THEN 2 ELSE -3)
    + (IF Strip(text, WS) # <<>> /\ Strip(text, WS)[Len(Strip(text, WS))] \in {".", "!", "?"}
       THEN 1 ELSE 0)

\* abs(n)
Abs(n) == IF n < 0 THEN -n ELSE n

\* _heading_candidate_score
_heading_candidate_score(text) ==
    <<HeadingFit(Words(text), text), -Abs(Words(text) - 160), Len(text)>>

\* a < b for two tuples of three integers
TupleLess(a, b) ==
    \/ a[1] < b[1]
    \/ a[1] = b[1] /\ a[2] < b[2]
    \/ a[1] = b[1] /\ a[2] = b[2] /\ a[3] < b[3]

\* max(candidates, key): the first of the candidates of greatest key, keys
\* being the keys of the candidates
FirstMax(candidates, keys) ==
    candidates[Min({i \in DOMAIN candidates :
                      \A j \in DOMAIN candidates : ~TupleLess(keys[i], keys[j])})]

\* the abstract collected at the line, "" when the line is no heading of an
\* abstract; i counts the lines from 1, m is the match of abs_pat
AbstractAt(lines, i, m) ==
    IF m = <<>> THEN <<>> ELSE _collect_candidate(lines, i, Part(m, 2, lines[i]))

\* candidates of _extract_heading_based
HeadingCandidates(lines) ==
    SelectSeq([i \in DOMAIN lines |-> AbstractAt(lines, i, ReMatchParts(AbsPat, lines[i]))],
              LAMBDA abstract : Words(abstract) >= 15)

\* the return of _extract_heading_based
BestCandidate(candidates) ==
    IF candidates = <<>> THEN <<>>
    ELSE FirstMax(candidates,
                  [i \in DOMAIN candidates |-> _heading_candidate_score(candidates[i])])

_extract_heading_based(lines) == BestCandidate(HeadingCandidates(lines))

RECURSIVE CountOf(_, _, _)
\* str.count(x) from cursor p on
CountOf(x, t, p) ==
    IF p + Len(x) - 1 > Len(t) THEN 0
    ELSE IF SubSeq(t, p, p + Len(x) - 1) = x THEN 1 + CountOf(x, t, p + Len(x))
    ELSE CountOf(x, t, p + 1)

\* positive
PositiveWords ==
    { Chars("present invention"), Chars("relates to"), Chars("discloses"), Chars("provides"),
      Chars("method"), Chars("system"), Chars("apparatus"), Chars("problem"),
      Chars("solution") }

\* \([A-Z][^)]{0,40}\d{4}\)
Citation ==
    Cat(<<Lit("("), In(Upper), Rep(NotIn({")"}), 0, 40), Rep(In(Digit), 4, 4), Lit(")")>>)

\* the score of a paragraph of 35 words or more, low being its lower case
ParagraphScore(t, words, low) ==
    (IF words >= 55 /\ words <= 220 THEN 7 ELSE IF words >= 35 /\ words <= 320 THEN 3 ELSE -3)
    - (IF words > 380 THEN 6 ELSE 0)
    - (IF words > 520 THEN 8 ELSE 0)
    + 2 * Cardinality({kw \in PositiveWords : Occurs(kw, low)})
    - 3 * CountOf(Chars("claim"), low, 1)
    - 2 * CountOf(Chars("figure"), low, 1)
    - CountOf(Chars("embodiment"), low, 1)
    - (IF ReSearch(Cat(<<WordB, Lit("wherein"), WordB>>), low).found THEN 2 ELSE 0)
    - (IF ReSearch(Cat(<<WordB, Lit("comprising"), WordB>>), low).found THEN 1 ELSE 0)
    - 2 * Len(ReFindAll(<<Citation>>, t, 1))
    - (IF ReSearch(Cat(<<WordB, Lit("et"), Sp1, Lit("al.")>>), low).found THEN 2 ELSE 0)

\* _score_paragraph of the text with its whitespace normalized
ScoreOf(t) ==
    IF t = <<>> \/ Words(t) < 35 THEN -999 ELSE ParagraphScore(t, Words(t), StrLower(t))

_score_paragraph(text) == ScoreOf(Strip(SubSpaces(text), WS))

\* paragraphs after flush()
Flushed(paragraphs, cur) ==
    IF cur = <<>> \/ Strip(Join(<<" ">>, cur), WS) = <<>> THEN paragraphs
    ELSE Append(paragraphs, Strip(Join(<<" ">>, cur), WS))

RECURSIVE ParagraphsFrom(_, _, _, _)
\* paragraphs of _extract_best_paragraph, the loop being at lines[i]
ParagraphsFrom(lines, i, cur, paragraphs) ==
    IF i > Len(lines) THEN Flushed(paragraphs, cur)
    ELSE IF lines[i] = <<>> \/ _is_section_heading(lines[i])
    THEN ParagraphsFrom(lines, i + 1, <<>>, Flushed(paragraphs, cur))
    ELSE IF _is_noise_line(lines[i]) THEN ParagraphsFrom(lines, i + 1, cur, paragraphs)
    ELSE IF PartsWords(Append(cur, lines[i])) >= 320
    THEN ParagraphsFrom(lines, i + 1, <<>>, Flushed(paragraphs, Append(cur, lines[i])))
    ELSE ParagraphsFrom(lines, i + 1, Append(cur, lines[i]), paragraphs)

\* max(ps, key) for integer keys: the first of the ps of greatest key
FirstMaxInt(ps, keys) ==
    ps[Min({i \in DOMAIN ps : \A j \in DOMAIN ps : keys[i] >= keys[j]})]

\* max(ps, key=_score_paragraph)
BestScored(ps) == FirstMaxInt(ps, [i \in DOMAIN ps |-> _score_paragraph(ps[i])])

\* best where the score of the best paragraph is below 1
BestModerate(paragraphs, moderate) ==
    IF moderate # <<>> THEN BestScored(moderate)
    ELSE FirstMaxInt(paragraphs, [i \in DOMAIN paragraphs |-> Words(paragraphs[i])])

\* best of _extract_best_paragraph
BestOf(paragraphs, best) ==
    IF _score_paragraph(best) < 1
    THEN BestModerate(paragraphs,
                      SelectSeq(paragraphs, LAMBDA p : Words(p) >= 35 /\ Words(p) <= 260))
    ELSE best

\* the return of _extract_best_paragraph
BestParagraph(paragraphs) ==
    IF paragraphs = <<>> THEN <<>>
    ELSE _trim_words(BestOf(paragraphs, BestScored(paragraphs)), Min({_MAX_ABSTRACT_WORDS, 360}))

_extract_best_paragraph(lines) == BestParagraph(ParagraphsFrom(lines, 1, <<>>, <<>>))

\* \(cid:\d+\)
CidMark == Cat(<<Lit("(cid:"), Plus(In(Digit)), Lit(")")>>)

\* https?://\S+|www\.\S+
WebAddress ==
    Alt(<<Cat(<<LitI("http"), Opt(LitI("s")), Lit("://"), Plus(NotIn(WS))>>),
          Cat(<<LitI("www."), Plus(NotIn(WS))>>)>>)

\* Espacenet\s*[–-]\s*search\s+results\b
EspacenetResults ==
    Cat(<<LitI("Espacenet"), Sp, In({NDash, "-"}), Sp, LitI("search"), Sp1, LitI("results"),
          WordB>>)

\* \b\d{1,2}/\d{1,2}/\d{2,4},?\s+\d{1,2}:\d{2}\s*(?:AM|PM)\s+Espacenet...
StampedResults ==
    Cat(<<WordB, Rep(In(Digit), 1, 2), Lit("/"), Rep(In(Digit), 1, 2), Lit("/"),
          Rep(In(Digit), 2, 4), Opt(Lit(",")), Sp1, Rep(In(Digit), 1, 2), Lit(":"),
          Rep(In(Digit), 2, 2), Sp, Alt(<<LitI("AM"), LitI("PM")>>), Sp1, EspacenetResults>>)

\* \bsearch\s+results\b
SearchResults == Cat(<<WordB, LitI("search"), Sp1, LitI("results"), WordB>>)

\* \bRelated\s+U\s*\.?\s*S\s*\.?\s+Application\s+Data\b
RelatedUSDataSpaced ==
    Cat(<<WordB, LitI("Related"), Sp1, LitI("U"), SpDot, Sp, LitI("S"), SpDot, Sp1,
          LitI("Application"), Sp1, LitI("Data"), WordB>>)

\* re.sub(r"(\w)-\s*\n\s*(\w)", r"\1\2", t)
SubBrokenWords(t) ==
    SubBetweenFrom(<<In(WordCh), Cat(<<Lit("-"), Sp, Lit("\n"), Sp>>), In(WordCh)>>, <<>>,
                   TRUE, t, 1)

\* t of clean_prior_art_text before its lines are read
CleanedText(text) ==
    SubBrokenWords(
        ReSub(NowWhich, <<" ">>,
        ReSub(NowPatNo, <<" ">>,
        ReSub(PatNo, <<" ">>,
        ReSub(IntCl, <<" ">>,
        ReSub(IntClField, <<" ">>,
        ReSub(ContinuedMark, <<" ">>,
        ReSub(RelatedUSDataSpaced, <<" ">>,
        ReSub(SearchResults, <<" ">>,
        ReSub(Cat(<<WordB, EspacenetResults>>), <<" ">>,
        ReSub(StampedResults, <<" ">>,
        ReSub(WebAddress, <<>>,
        ReSub(CidMark, <<>>, RemoveChar(text, SHY))))))))))))))

RECURSIVE CleanedLines(_, _, _)
\* lines of clean_prior_art_text, the loop being at the i-th raw line
CleanedLine(raw, i, lines, line) ==
    IF line = <<>>
    THEN CleanedLines(raw, i + 1,
                      IF lines # <<>> /\ lines[Len(lines)] # <<>> THEN Append(lines, <<>>)
                      ELSE lines)
    ELSE IF _is_noise_line(line) THEN CleanedLines(raw, i + 1, lines)
    ELSE CleanedLines(raw, i + 1, Append(lines, line))

CleanedLines(raw, i, lines) ==
    IF i > Len(raw) THEN lines ELSE CleanedLine(raw, i, lines, _normalize_line(raw[i]))

RECURSIVE CleanedParagraphs(_, _, _, _)
\* paragraphs of clean_prior_art_text, the loop being at lines[i]
CleanedParagraphs(lines, i, cur, paragraphs) ==
    IF i > Len(lines)
    THEN IF cur # <<>> THEN Append(paragraphs, Strip(Join(<<" ">>, cur), WS)) ELSE paragraphs
    ELSE IF lines[i] = <<>>
    THEN CleanedParagraphs(lines, i + 1, <<>>,
                           IF cur # <<>> THEN Append(paragraphs, Strip(Join(<<" ">>, cur), WS))
                           ELSE paragraphs)
    ELSE CleanedParagraphs(lines, i + 1, Append(cur, lines[i]), paragraphs)

\* \bAt\s*\(\s*\d[\d\s]*(?:\.\d+)?\s*\)?\s*$
TailResidue ==
    Cat(<<WordB, LitI("At"), Sp, Lit("("), Sp, In(Digit), Star(In(Digit \cup WS)),
          Opt(Cat(<<Lit("."), Plus(In(Digit))>>)), Sp, Opt(Lit(")")), Sp, Eos>>)

\* t without the residue m_tail
WithoutResidue(t, m_tail) ==
    IF m_tail.found THEN RStrip(SubSeq(t, 1, m_tail.s - 1), {" ", ",", ";"}) ELSE t

\* (?:\s+[A-Za-z])+$
DanglingLetters == Cat(<<Plus(Cat(<<Sp1, In(Alpha)>>)), Eos>>)

\* \(\d{2,4}\)
NumberedItem == Cat(<<Lit("("), Rep(In(Digit), 2, 4), Lit(")")>>)

\* ;\s*\([A-Za-z0-9,]+\)\s*[A-Za-z]
LetteredItem ==
    Cat(<<Lit(";"), Sp, Lit("("), Plus(In(Alpha \cup Digit \cup {","})), Lit(")"), Sp,
          In(Alpha)>>)

\* len(words[-1]) for words = re.findall(r"\b\w+\b", t), 0 when there is no word
LastWordLen(t) ==
    IF \A i \in DOMAIN t : t[i] \notin WordCh THEN 0
    ELSE Max({i \in DOMAIN t : t[i] \in WordCh})
         - Max({0} \cup {i \in DOMAIN t : t[i] \notin WordCh
                                          /\ i < Max({j \in DOMAIN t : t[j] \in WordCh})})

\* max(t.rfind("."), t.rfind("!"), t.rfind("?")), counted from 1, 0 when none
LastSentenceEnd(t) == Max({0} \cup {i \in DOMAIN t : t[i] \in {".", "!", "?"}})

\* the tail of a text that does not end a sentence
PolishedOpenTail(t, cut) ==
    IF ReSearch(NumberedItem, t).found \/ ReSearch(LetteredItem, t).found THEN t \o <<".">>
    ELSE IF LastWordLen(t) <= 2 /\ cut - 1 >= (4 * Len(t)) \div 10
    THEN Strip(SubSeq(t, 1, cut), WS)
    ELSE t \o <<".">>

\* _polish_abstract_tail after the residue is dropped
PolishedTail(t) ==
    IF t = <<>> THEN <<>>
    ELSE IF t[Len(t)] \notin {".", "!", "?"} THEN PolishedOpenTail(t, LastSentenceEnd(t))
    ELSE t

\* t with the dangling letters removed
WithoutDangling(t) == Strip(ReSub(DanglingLetters, <<>>, t), WS)

\* _polish_abstract_tail of a stripped text
PolishedStripped(t) ==
    IF t = <<>> THEN <<>>
    ELSE PolishedTail(WithoutDangling(WithoutResidue(t, ReSearch(TailResidue, t))))

_polish_abstract_tail(text) == PolishedStripped(Strip(text, WS))

\* [ \t]{2,}
BlankRun == Rep(In({" ", "\t"}), 2, -1)

clean_prior_art_text(text) ==
    _polish_abstract_tail(
        Strip(ReSub(BlankRun, <<" ">>,
                    Join(<<"\n", "\n">>,
                         SelectSeq(CleanedParagraphs(CleanedLines(SplitLines(CleanedText(text)),
                                                                  1, <<>>),
                                                     1, <<>>, <<>>),
                                   LAMBDA p : p # <<>>))), WS))

\* the last resort of extract_prior_art_abstract_from_pdf
FirstWords(lines) ==
    _trim_words(Join(<<" ">>, SelectSeq(lines, LAMBDA ln : ln # <<>>)), 160)

\* the most pages of a prior-art PDF
MaxAbstractPages == 2

\* page.extract_text() of the pages of prior-art PDFs: an abstract after its
\* heading on the same line, a short one under its heading, a paragraph, a
\* page number, a section heading, and a page without text
PriorArtPages ==
    { Chars("Abstract: a pump b c d e f g h i j k l m n."),
      Chars("ABSTRACT\nA pump moves water."),
      Chars("A valve 12 opens the pipe and a float shuts it when full."),
      Chars("12"),
      Chars("BACKGROUND"),
      <<>> }

PriorArtPdfs == UNION {[1..n -> PriorArtPages] : n \in 0..MaxAbstractPages}

InitPriorArt == pc = "pdf" /\ input \in PriorArtPdfs /\ out = <<>>

\* lines = _build_lines("\n\n".join(page_texts))
ReadPriorArtPages ==
    /\ pc = "pdf"
    /\ out' = [lines |-> _build_lines(Join(<<"\n", "\n">>, input)), abstract |-> <<>>,
               tried |-> <<>>, result |-> <<>>]
    /\ pc' = "lines"
    /\ UNCHANGED input

\* if not lines: return ""
ReturnNoAbstract ==
    /\ pc = "lines"
    /\ out.lines = <<>>
    /\ out' = [out EXCEPT !.result = <<>>]
    /\ pc' = "returned"
    /\ UNCHANGED input

\* abstract = _extract_heading_based(lines)
TryHeadingBased ==
    /\ pc = "lines"
    /\ out.lines # <<>>
    /\ out' = [out EXCEPT !.abstract = _extract_heading_based(out.lines),
                          !.tried = Append(@, "heading")]
    /\ pc' = "heading"
    /\ UNCHANGED input

\* abstract = _extract_best_paragraph(lines) without its condition
TryBestParagraphAlways ==
    /\ pc = "heading"
    /\ out' = [out EXCEPT !.abstract = _extract_best_paragraph(out.lines),
                          !.tried = Append(@, "paragraph")]
    /\ pc' = "paragraph"
    /\ UNCHANGED input

\* if not abstract: abstract = _extract_best_paragraph(lines)
TryBestParagraph ==
    /\ pc = "heading"
    /\ out.abstract = <<>>
    /\ out' = [out EXCEPT !.abstract = _extract_best_paragraph(out.lines),
                          !.tried = Append(@, "paragraph")]
    /\ pc' = "paragraph"
    /\ UNCHANGED input

\* if not abstract: abstract = _trim_words(" ".join(...), 160)
TryFirstWords ==
    /\ pc = "paragraph"
    /\ out.abstract = <<>>
    /\ out' = [out EXCEPT !.abstract = FirstWords(out.lines), !.tried = Append(@, "words")]
    /\ pc' = "words"
    /\ UNCHANGED input

\* return clean_prior_art_text(abstract)
ReturnAbstract ==
    /\ \/ pc \in {"heading", "paragraph"} /\ out.abstract # <<>>
       \/ pc = "words"
    /\ out' = [out EXCEPT !.result = clean_prior_art_text(out.abstract)]
    /\ pc' = "returned"
    /\ UNCHANGED input

NextPriorArt ==
    \/ ReadPriorArtPages
    \/ ReturnNoAbstract
    \/ TryHeadingBased
    \/ TryBestParagraph
    \/ TryFirstWords
    \/ ReturnAbstract

SpecPriorArt == InitPriorArt /\ [][NextPriorArt]_vars

\* a heading of an abstract whose candidate reaches the minimum of 15 words
ReachesThreshold(lines) ==
    \E i \in DOMAIN lines :
        /\ ReMatchParts(AbsPat, lines[i]) # <<>>
        /\ WordCount(_collect_candidate(lines, i,
                                        Part(ReMatchParts(AbsPat, lines[i]), 2, lines[i]))) >= 15

\* a line that belongs to a paragraph
ParagraphExists(lines) ==
    \E i \in DOMAIN lines :
        lines[i] # <<>> /\ ~_is_section_heading(lines[i]) /\ ~_is_noise_line(lines[i])

\* the strategies tried and the abstract they leave, as the order of the
\* strategies has it
InOrder(lines, tried, abstract) ==
    IF lines = <<>> THEN tried = <<>> /\ abstract = <<>>
    ELSE IF ReachesThreshold(lines)
    THEN tried = <<"heading">> /\ abstract = _extract_heading_based(lines) /\ abstract # <<>>
    ELSE IF ParagraphExists(lines)
    THEN /\ tried = <<"heading", "paragraph">>
         /\ abstract = _extract_best_paragraph(lines)
         /\ abstract # <<>>
    ELSE tried = <<"heading", "paragraph", "words">> /\ abstract = FirstWords(lines)

\* C25: the strategies are tried in order, a later one only when the earlier
\* one produced nothing: the heading-based candidate is used whenever one
\* reaches the minimum of words, otherwise the best paragraph, the first words
\* of the lines only if no paragraph exists, and a PDF without lines gives "".
C25_StrategiesInOrder ==
    pc = "returned"
    => /\ InOrder(out.lines, out.tried, out.abstract)
       /\ out.result = clean_prior_art_text(out.abstract)
       /\ out.lines = <<>> => out.result = <<>>

\* a PDF of two pages whose abstract is that of the heading though a
\* paragraph stands before it
C25_Witness ==
    /\ pc = "returned"
    /\ Len(input) = 2
    /\ ParagraphExists(_build_lines(input[1]))
    /\ out.tried = <<"heading">>
    /\ out.result # <<>>

\* ------------------------------------------------------------------------
\* SpecSuffixAnchored: the two suffix-anchored extractors of
\* _pick_best_applicant_name, each run on one applicant block.
\* ------------------------------------------------------------------------
MaxSuffixParts == 3

SuffixParts == { Chars("Acme Ltd"), Chars("Beta Gamma Inc"), Chars("5"), Chars("Road"),
                 Chars("Abc Trust"), Chars("Delhi Law College") }

SuffixBlocks ==
    { Join(<<" ">>, ps) : ps \in UNION { [1..n -> SuffixParts] : n \in 1..MaxSuffixParts } }

InitSuffixAnchored == pc = "block" /\ input \in SuffixBlocks /\ out = <<>>

\* _extract_company_name_from_block(raw_name)
ExtractCompanyName ==
    /\ pc = "block"
    /\ out' = _extract_company_name_from_block(input)
    /\ pc' = "company"
    /\ UNCHANGED input

\* _extract_institution_name_from_block(raw_name)
ExtractInstitutionName ==
    /\ pc = "block"
    /\ out' \in _extract_institution_name_from_block(input)
    /\ pc' = "institution"
    /\ UNCHANGED input

NextSuffixAnchored == ExtractCompanyName \/ ExtractInstitutionName

SpecSuffixAnchored == InitSuffixAnchored /\ [][NextSuffixAnchored]_vars

\* the block with its whitespace collapsed, s of both extractors
CollapsedBlock(block) == Strip(ReSub(Sp1, <<" ">>, block), WS)

\* the candidate names of the company extractor
CompanyNamesOf(cs) == {cs[i][2] : i \in DOMAIN cs}

\* the name is the clean name of a candidate, and no candidate has a clean
\* name of fewer words
ShortestClean(name, cands) ==
    \E c \in cands :
        /\ name = _normalize_applicant_name(c)
        /\ \A d \in cands :
               WordCount(_normalize_applicant_name(c)) <= WordCount(_normalize_applicant_name(d))

\* the claim for the company extractor
ShortestCompany(s, name) ==
    Len(ReFindAll(<<CorpSuffix>>, s, 1)) >= 2 /\ CompanyCandidates(s) # <<>>
    => ShortestClean(name, CompanyNamesOf(CompanyCandidates(s)))

\* the claim for the institution extractor
ShortestInstitution(s, name) ==
    Len(ReFindAll(<<InstitutionSuffix>>, s, 1)) >= 2 /\ InstitutionCandidates(s) # <<>>
    => ShortestClean(name, SetOf(InstitutionCandidates(s)))

\* C26: of several company-suffix matches, or several institution-suffix
\* matches, in a block, the name returned is the candidate of the shortest
\* clean name, the one of fewest words among all candidates.
C26_ShortestCandidate ==
    /\ pc = "company" => ShortestCompany(CollapsedBlock(input), out)
    /\ pc = "institution" => ShortestInstitution(CollapsedBlock(input), out)

(***************************************************************************)
(* ReplyDocument: reply_generator.generate_reply_docx from the amended      *)
(* claims to the formal requirements.  The document is the sequence of the  *)
(* paragraphs added to it; the paragraphs of fixed wording that follow a    *)
(* label inside a block are one paragraph, named after the block.           *)
(***************************************************************************)
\* a paragraph of the document, as the helper of that kind adds it
Paragraph(kind, text, bold) == [kind |-> kind, text |-> text, bold |-> bold]

_para(text, bold) == <<Paragraph("para", text, bold)>>

_heading(text) == <<Paragraph("heading", text, TRUE)>>

_obj_label(text) == <<Paragraph("obj_label", text, TRUE)>>

_reply_label == <<Paragraph("reply_label", Chars("OUR REPLY:"), TRUE)>>

_placeholder(text) == <<Paragraph("placeholder", text, FALSE)>>

_gap == <<Paragraph("gap", <<>>, FALSE)>>

\* re.sub(r"[ऀ-ॿ\s/\-()\[\].,;:0-9]", "", s)
LatinOf(s) ==
    SelectSeq(s, LAMBDA c : c \notin WS \cup Digit
                                     \cup {"DEV", "/", "-", "(", ")", "[", "]", ".", ",", ";", ":"})

\* a line that _blocktext leaves out
BlockLineSkipped(s) ==
    \/ Len(s) > 3 /\ LatinOf(s) = <<>>
    \/ ReMatch(Cat(<<LitI("Page"), Sp1, Plus(In(Digit)), Sp1, LitI("of"), Sp1, Plus(In(Digit))>>), s)
    \/ ReMatch(Cat(<<LitI("THE"), Sp1, LitI("PATENT"), Sp1, LitI("OFFICE"), Sp, Eos>>), s)
    \/ ReMatch(Cat(<<Lit("("), Plus(In(Digit)), Lit(")."), Sp, In({"DEV"})>>), s)

\* a line that _blocktext sets alone in a paragraph
BlockLineAlone(s) ==
    \/ ReMatch(Cat(<<Alt(<<Cat(<<Opt(Lit("(")), Plus(In(Digit)), In({".", ")"})>>),
                           Cat(<<In(Alpha), In({".", ")"})>>),
                           In({"-", "*"})>>),
                     Sp1>>), s)
    \/ s[Len(s)] = ":" /\ Len(s) <= 90

\* flush() of _blocktext
BlockFlushed(paras, merged) ==
    IF merged = <<>> THEN paras ELSE paras \o _para(Strip(Join(<<" ">>, merged), WS), FALSE)

RECURSIVE BlockParagraphs(_, _, _, _)
\* the paragraphs of _blocktext, the loop being at the i-th line
BlockLine(lines, i, merged, paras, s) ==
    IF s = <<>> THEN BlockParagraphs(lines, i + 1, <<>>, BlockFlushed(paras, merged))
    ELSE IF BlockLineSkipped(s) THEN BlockParagraphs(lines, i + 1, merged, paras)
    ELSE IF BlockLineAlone(s)
    THEN BlockParagraphs(lines, i + 1, <<>>, BlockFlushed(paras, merged) \o _para(s, FALSE))
    ELSE BlockParagraphs(lines, i + 1, Append(merged, s), paras)

BlockParagraphs(lines, i, merged, paras) ==
    IF i > Len(lines) THEN BlockFlushed(paras, merged)
    ELSE BlockLine(lines, i, merged, paras, Strip(lines[i], WS))

_blocktext(text) == BlockParagraphs(SplitLines(_strip_hindi(text)), 1, <<>>, <<>>)

\* the paragraphs of one claim other than claim 1 in _add_regarding_claims_block
RegardingClaim(n) ==
    IF n = 1 THEN <<>>
    ELSE _gap \o _para(Chars("Regarding Claim ") \o PyStr(n) \o <<":">>, TRUE)
         \o _para(Chars("arguments for the dependent claim"), FALSE)

\* _add_regarding_claims_block with claims in hand
RegardingClaimsOf(claims) ==
    IF claims = <<>> THEN _placeholder(Chars("[INSERT REGARDING-CLAIMS ARGUMENTS HERE]"))
    ELSE _para(Chars("Regarding Claim 1:"), TRUE)
         \o _para(Chars("arguments for claim 1"), FALSE)
         \o Flatten([i \in DOMAIN claims |-> RegardingClaim(claims[i][1])])

_add_regarding_claims_block(amended_claims) ==
    RegardingClaimsOf(_extract_numbered_claims(amended_claims))

\* _add_non_patentability_technical_sections
_add_non_patentability_technical_sections ==
    _gap \o _obj_label(Chars("TECHNICAL PROBLEM SOLVED BY THE INVENITON:"))
    \o _para(Chars("the technical problem"), FALSE)
    \o _gap \o _obj_label(Chars("TECHNICAL SOLUTION SOLVED BY THE INVENITON:"))
    \o _para(Chars("the technical solution"), FALSE)
    \o _gap \o _obj_label(Chars("Technical Effect:"))
    \o _para(Chars("the technical effect"), FALSE)

\* \bsection\s*3\s*(?:\(\s*c\s*\)|c)(?=\W|$) and its two companions, the
\* character before and the character after being parts of the search
ClauseOf(c) == Alt(<<Cat(<<Lit("("), Sp, Lit(c), Sp, Lit(")")>>), Lit(c)>>)

NoWordAfter == Alt(<<NotIn(WordCh), Eos>>)

SectionClause(c) ==
    << Cat(<<WordB, Lit("section"), Sp, Lit("3"), Sp, ClauseOf(c)>>), NoWordAfter >>

ClauseOfSection(c) ==
    << Cat(<<WordB, Lit("clause"), Sp, Lit("("), Sp, Lit(c), Sp, Lit(")"), Sp, Lit("of"), Sp,
             Lit("section"), Sp, Opt(Lit("(")), Sp, Lit("3"), Sp, Opt(Lit(")"))>>),
       NoWordAfter >>

ShortClause(c) ==
    << Alt(<<Bos, NotIn(Digit)>>), Cat(<<Lit("3"), Sp, ClauseOf(c)>>), NoWordAfter >>

\* _contains_section_clause for raw, the text in lower case with single blanks
ClauseFound(raw, c) ==
    /\ raw # <<>>
    /\ \/ ReSearchParts(SectionClause(c), raw, 1) # <<>>
       \/ ReSearchParts(ClauseOfSection(c), raw, 1) # <<>>
       \/ ReSearchParts(ShortClause(c), raw, 1) # <<>>

_contains_section_clause(text, clause) ==
    clause \in {"k", "m"} /\ ClauseFound(StrLower(Strip(SubSpaces(text), WS)), clause)

\* the paragraphs of _add_non_patentability_static_paras; it returns whether
\* there is one
_add_non_patentability_static_paras(objection_text) ==
    (IF _contains_section_clause(objection_text, "k")
     THEN _para(Chars("_NON_PATENTABILITY_3K_PARA"), FALSE) ELSE <<>>)
    \o (IF _contains_section_clause(objection_text, "m")
        THEN _para(Chars("_NON_PATENTABILITY_3M_PARA"), FALSE) ELSE <<>>)


\* re.sub of the whitespace before a mark, the mark kept
SubSpaceBefore(mark, t) == SubBetweenFrom(<<Cat(<<>>), Sp1, mark>>, <<>>, TRUE, t, 1)

\* re.sub of the whitespace after a mark, the mark kept
SubSpaceAfter(mark, t) == SubBetweenFrom(<<mark, Sp1, Cat(<<>>)>>, <<>>, TRUE, t, 1)

_compact_claim_quote(text) ==
    SubSpaceAfter(Lit("\""),
    SubSpaceBefore(Lit("\""),
    SubSpaceBefore(Lit("]"),
    SubSpaceAfter(Lit("["),
    SubSpaceBefore(Lit(")"),
    SubSpaceAfter(Lit("("),
    SubSpaceBefore(In({",", ".", ";", ":", "!", "?"}),
                   Strip(SubSpaces(_strip_hindi(text)), WS))))))))

\* the paragraphs of the amended claims where no claim is numbered
UnnumberedClaims(claims_lines) ==
    IF claims_lines # <<>> THEN _para(_compact_claim_quote(Join(<<"\n">>, claims_lines)), FALSE)
    ELSE _placeholder(Chars("[PASTE AMENDED CLAIMS HERE - upload the Amended Claims PDF]"))

\* the lines of the amended claims, stripped, the empty ones left out
ClaimsLines(amended_claims) ==
    SelectSeq([i \in DOMAIN SplitLines(amended_claims) |->
                  Strip(SplitLines(amended_claims)[i], WS)],
              LAMBDA l : l # <<>>)

\* the paragraphs of the amended claims
AmendedClaims(amended_claims, claims_blocks) ==
    _heading(Chars("AMENDMENTS MADE TO THE CLAIMS ARE AS FOLLOWS"))
    \o _para(Chars("We Claim:"), TRUE)
    \o (IF claims_blocks # <<>>
        THEN Flatten([i \in DOMAIN claims_blocks |->
                         _para(_compact_claim_quote(claims_blocks[i][2]), FALSE)])
        ELSE UnnumberedClaims(ClaimsLines(amended_claims)))
    \o _gap

\* the six empty submissions of a report without objections
EmptySubmission(i) ==
    _heading(Chars("SUBMISSION TO OBJECTION ") \o PyStr(i))
    \o _placeholder(Chars("[PASTE EXAMINER'S OBJECTION ") \o PyStr(i) \o Chars(" TEXT HERE]"))
    \o _reply_label
    \o _placeholder(Chars("[INSERT REPLY TO OBJECTION ") \o PyStr(i) \o Chars(" HERE]"))

\* the objection as the examiner wrote it, up to OUR REPLY:
ObjectionQuoted(obj, h) ==
    (IF Occurs(Chars("REGARDING CLAIMS"), h) THEN _obj_label(Chars("REGARDING CLAIMS:"))
     ELSE _heading(Chars("SUBMISSION TO OBJECTION ") \o PyStr(obj.number))
          \o _obj_label(h \o <<":">>))
    \o _blocktext(obj.body) \o _gap \o _reply_label

\* the branch of the reply that the heading h selects
ReplyBranch(h) ==
    IF Occurs(Chars("INVENTIVE STEP"), h) THEN "INVENTIVE STEP"
    ELSE IF Occurs(Chars("NOVELTY"), h) THEN "NOVELTY"
    ELSE IF Occurs(Chars("NON PATENTABILITY"), h) THEN "NON PATENTABILITY"
    ELSE IF Occurs(Chars("REGARDING CLAIMS"), h) THEN "REGARDING CLAIMS"
    ELSE IF Occurs(Chars("SUFFICIENCY"), h) THEN "SUFFICIENCY"
    ELSE IF Occurs(Chars("CLARITY"), h) THEN "CLARITY"
    ELSE IF Occurs(Chars("DEFINITIVENESS"), h) THEN "DEFINITIVENESS"
    ELSE IF Occurs(Chars("SCOPE"), h) THEN "SCOPE"
    ELSE IF Occurs(Chars("OTHERS"), h) THEN "OTHERS"
    ELSE "else"

\* the reply to an INVENTIVE STEP objection
InventiveStepReply(amended_claims) ==
    IF _extract_numbered_claims(amended_claims) # <<>>
    THEN _add_regarding_claims_block(amended_claims)
    ELSE _placeholder(Chars("[EXPLAIN HOW AMENDED CLAIM OVERCOMES D1, D2, etc.]"))
         \o _placeholder(Chars("[ADD INSTANT INVENTION vs PRIOR ART TABLE IF NEEDED]"))

\* the reply to a NON PATENTABILITY objection, static the paragraphs of
\* _add_non_patentability_static_paras
NonPatentabilityReply(static, rendered) ==
    (IF static # <<>> THEN static
     ELSE _placeholder(Chars("[INSERT SECTION 3(f)/3(o)/3(k) ARGUMENT HERE]")))
    \o _placeholder(Chars("[EXPLAIN WHY INVENTION IS NOT EXCLUDED UNDER CITED CLAUSE]"))
    \o (IF ~rendered THEN _add_non_patentability_technical_sections ELSE <<>>)

\* the reply to a REGARDING CLAIMS objection
RegardingClaimsReply(amended_claims, rendered) ==
    IF rendered
    THEN _para(Chars("Detailed claim-wise distinction over cited prior art is already submitted above under the Inventive Step reply."),
               FALSE)
    ELSE _add_regarding_claims_block(amended_claims)

\* the reply to an objection of another heading
PlainReply(branch, obj) ==
    IF branch = "NOVELTY"
    THEN _placeholder(Chars("[INSERT NOVELTY ARGUMENT AGAINST CITED PRIOR ART HERE]"))
         \o _placeholder(Chars("[EXPLAIN DISTINGUISHING FEATURES OF AMENDED CLAIMS HERE]"))
    ELSE IF branch = "SUFFICIENCY"
    THEN _placeholder(Chars("[INSERT ABSTRACT / SUFFICIENCY COMPLIANCE STATEMENT HERE]"))
    ELSE IF branch = "CLARITY"
    THEN _placeholder(Chars("[INSERT CLARITY RESPONSE - EXPLAIN HOW AMENDMENTS ADDRESS EACH POINT]"))
    ELSE IF branch = "DEFINITIVENESS"
    THEN _placeholder(Chars("[INSERT DEFINITIVENESS RESPONSE (Sec 10(4)(c), 10(5)) HERE]"))
    ELSE IF branch = "SCOPE"
    THEN _placeholder(Chars("[INSERT SCOPE RESPONSE - EXPLAIN HOW CLAIMS DEFINE CLEAR BOUNDARIES]"))
    ELSE IF branch = "OTHERS"
    THEN _placeholder(Chars("[INSERT RESPONSE TO OTHER REQUIREMENTS HERE]"))
    ELSE _placeholder(Chars("[INSERT REPLY TO OBJECTION ") \o PyStr(obj.number) \o Chars(" HERE]"))

\* the paragraphs of the reply to obj in the branch, st the state before it
ReplyParagraphs(branch, obj, amended_claims, st) ==
    IF branch = "INVENTIVE STEP" THEN InventiveStepReply(amended_claims)
    ELSE IF branch = "NON PATENTABILITY"
    THEN NonPatentabilityReply(
             _add_non_patentability_static_paras(obj.heading \o <<"\n">> \o obj.body),
             st.non_pat_technical_sections_rendered)
    ELSE IF branch = "REGARDING CLAIMS"
    THEN RegardingClaimsReply(amended_claims, st.regarding_claims_content_rendered)
    ELSE PlainReply(branch, obj)

\* the state after one turn of the loop over the objections
Replied(branch, obj, amended_claims, st) ==
    [st EXCEPT
       !.doc = @ \o ObjectionQuoted(obj, StrUpper(obj.heading))
                 \o ReplyParagraphs(branch, obj, amended_claims, st) \o _gap,
       !.done = @ + 1,
       !.has_regarding_claims_objection =
           \/ @
           \/ branch = "REGARDING CLAIMS"
           \/ branch = "INVENTIVE STEP" /\ _extract_numbered_claims(amended_claims) # <<>>,
       !.regarding_claims_content_rendered =
           \/ @
           \/ branch = "REGARDING CLAIMS"
           \/ branch = "INVENTIVE STEP" /\ _extract_numbered_claims(amended_claims) # <<>>,
       !.non_pat_technical_sections_rendered = @ \/ branch = "NON PATENTABILITY"]

\* the REGARDING CLAIMS: section after the objections
TrailingRegardingClaims(amended_claims) ==
    _obj_label(Chars("REGARDING CLAIMS:")) \o _reply_label
    \o _add_regarding_claims_block(amended_claims) \o _gap

\* the SUBMISSION TO NON PATENTABILITY U/S 3 section after the objections
TrailingNonPatentability ==
    _heading(Chars("SUBMISSION TO NON PATENTABILITY U/S 3"))
    \o _obj_label(Chars("NON PATENTABILITY U/S 3:")) \o _reply_label
    \o _placeholder(Chars("[INSERT SECTION 3(k)/3(m) ARGUMENT HERE]"))
    \o _placeholder(Chars("[EXPLAIN WHY INVENTION IS NOT EXCLUDED UNDER CITED CLAUSE]"))
    \o _add_non_patentability_technical_sections \o _gap

\* the rows of the formal table, each one paragraph of its three cells
FormalTableRows(rows) ==
    [i \in DOMAIN rows |-> Paragraph("table row", Join(<<"|">>, rows[i]), FALSE)]

\* the document from FORMAL REQUIREMENTS: to its end
Closing ==
    _heading(Chars("FORMAL REQUIREMENTS:")) \o FormalTableRows(_add_formal_table(<<>>, <<>>))
    \o _gap \o _para(Chars("In the event above submissions are not found to be persuasive"), FALSE)
    \o _gap \o _para(Chars("Yours faithfully,"), FALSE) \o _para(Chars("Adv. Pranav Bhat "), FALSE)
    \o _para(Chars("(Patent Agent - IN/PA 4580)"), FALSE) \o _gap
    \o _para(Chars("Enclosure:"), FALSE) \o _placeholder(Chars("1. [List enclosures here]"))


\* ------------------------------------------------------------------------
\* SpecReply: generate_reply_docx on the objections of a parsed report and
\* an amended claims text.
\* ------------------------------------------------------------------------
MaxReplyObjections == 3

\* heading and body of the objections of a report, as parse_fer_pdf leaves them
ReplyObjections ==
    { <<Chars("Inventive Step"), Chars("Claim 1 is obvious over D1.")>>,
      <<Chars("Novelty"), Chars("Claim 1 lacks novelty.")>>,
      <<Chars("Non Patentability"), Chars("Claims fall under section 3(k).")>>,
      <<Chars("Non Patentability"), Chars("Not an invention.")>>,
      <<Chars("Regarding Claims"), Chars("Claim 2 is unclear.")>>,
      <<Chars("Clarity And Conciseness"), Chars("Claim 3 is vague.")>> }

\* fer.objections, numbered from 1 in their order
ObjectionsOf(hs) == [i \in DOMAIN hs |-> [number |-> i, heading |-> hs[i][1], body |-> hs[i][2]]]

ReplyClaims == { Chars("A pump moves water."), Chars("1. A pump.\n2. The pump of claim 1.") }

ReplyInputs ==
    { [objections |-> ObjectionsOf(hs), amended_claims |-> c] :
          hs \in UNION {[1..n -> ReplyObjections] : n \in 0..MaxReplyObjections},
          c \in ReplyClaims }

InitReply == pc = "claims" /\ input \in ReplyInputs /\ out = <<>>

\* generate_reply_docx up to the objections
WriteAmendedClaims ==
    /\ pc = "claims"
    /\ out' = [doc |-> AmendedClaims(input.amended_claims,
                                     _extract_numbered_claims(input.amended_claims)),
               done |-> 0,
               has_regarding_claims_objection |-> FALSE,
               regarding_claims_content_rendered |-> FALSE,
               non_pat_technical_sections_rendered |-> FALSE]
    /\ pc' = "objections"
    /\ UNCHANGED input

\* if not objections: the six empty submissions
WriteEmptySubmissions ==
    /\ pc = "objections"
    /\ input.objections = <<>>
    /\ out' = [out EXCEPT !.doc = @ \o Flatten([i \in 1..6 |-> EmptySubmission(i)])]
    /\ pc' = "regarding claims"
    /\ UNCHANGED input

\* one turn of  for obj in objections
ReplyToObjection ==
    /\ pc = "objections"
    /\ out.done < Len(input.objections)
    /\ out' = Replied(ReplyBranch(StrUpper(input.objections[out.done + 1].heading)),
                      input.objections[out.done + 1], input.amended_claims, out)
    /\ pc' = IF out.done + 1 = Len(input.objections) THEN "regarding claims" ELSE "objections"
    /\ UNCHANGED input

\* the REGARDING CLAIMS: section after the objections, never written
CloseRegardingClaimsNever ==
    /\ pc = "regarding claims"
    /\ pc' = "non patentability"
    /\ UNCHANGED <<input, out>>

\* the REGARDING CLAIMS: section after the objections, where no objection
\* had the block
CloseRegardingClaims ==
    /\ pc = "regarding claims"
    /\ out' = IF /\ ~out.has_regarding_claims_objection
                 /\ ~out.regarding_claims_content_rendered
                 /\ _extract_numbered_claims(input.amended_claims) # <<>>
              THEN [out EXCEPT !.doc = @ \o TrailingRegardingClaims(input.amended_claims),
                               !.regarding_claims_content_rendered = TRUE]
              ELSE out
    /\ pc' = "non patentability"
    /\ UNCHANGED input

\* the SUBMISSION TO NON PATENTABILITY U/S 3 section, written always
CloseNonPatentabilityAlways ==
    /\ pc = "non patentability"
    /\ out' = [out EXCEPT !.doc = @ \o TrailingNonPatentability]
    /\ pc' = "formal"
    /\ UNCHANGED input

\* the SUBMISSION TO NON PATENTABILITY U/S 3 section, where no objection had
\* the technical sections
CloseNonPatentability ==
    /\ pc = "non patentability"
    /\ out' = IF ~out.non_pat_technical_sections_rendered
              THEN [out EXCEPT !.doc = @ \o TrailingNonPatentability]
              ELSE out
    /\ pc' = "formal"
    /\ UNCHANGED input

\* the formal requirements and the end of the letter
CloseReply ==
    /\ pc = "formal"
    /\ out' = [out EXCEPT !.doc = @ \o Closing]
    /\ pc' = "returned"
    /\ UNCHANGED input

NextReply ==
    \/ WriteAmendedClaims
    \/ WriteEmptySubmissions
    \/ ReplyToObjection
    \/ CloseRegardingClaims
    \/ CloseNonPatentability
    \/ CloseReply

SpecReply == InitReply /\ [][NextReply]_vars

\* the places of the paragraphs of the kind and the text in the document
PlacesOf(doc, kind, text) ==
    {i \in DOMAIN doc : doc[i].kind = kind /\ doc[i].text = text}

\* where the technical sections begin in the document
TechnicalSectionsAt(doc) ==
    PlacesOf(doc, "obj_label", Chars("TECHNICAL PROBLEM SOLVED BY THE INVENITON:"))

\* where a regarding-claims block begins in the document
RegardingClaimsAt(doc) ==
    {i \in DOMAIN doc :
        \/ doc[i].kind = "para" /\ doc[i].bold /\ doc[i].text = Chars("Regarding Claim 1:")
        \/ /\ doc[i].kind = "placeholder"
           /\ doc[i].text = Chars("[INSERT REGARDING-CLAIMS ARGUMENTS HERE]")}

\* the objections replied to so far whose heading has the name
RepliedNamed(objections, done, name) ==
    {i \in 1..done : Occurs(name, StrUpper(objections[i].heading))}

\* the technical sections stand in the document once from the reply to the
\* first NON PATENTABILITY objection on, and not before
TechnicalInFirst(objections, st) ==
    Cardinality(TechnicalSectionsAt(st.doc))
        = IF RepliedNamed(objections, st.done, Chars("NON PATENTABILITY")) # {} THEN 1 ELSE 0

\* the technical sections stand once in the finished document, after the
\* heading of the trailing section where no objection is one of NON PATENTABILITY
TechnicalOnce(objections, doc) ==
    /\ Cardinality(TechnicalSectionsAt(doc)) = 1
    /\ Cardinality(PlacesOf(doc, "obj_label", Chars("TECHNICAL SOLUTION SOLVED BY THE INVENITON:"))) = 1
    /\ Cardinality(PlacesOf(doc, "obj_label", Chars("Technical Effect:"))) = 1
    /\ IF RepliedNamed(objections, Len(objections), Chars("NON PATENTABILITY")) = {}
       THEN \E h \in PlacesOf(doc, "heading", Chars("SUBMISSION TO NON PATENTABILITY U/S 3")) :
                \A t \in TechnicalSectionsAt(doc) : h < t
       ELSE PlacesOf(doc, "heading", Chars("SUBMISSION TO NON PATENTABILITY U/S 3")) = {}

\* C27: in the reply, for every sequence of objections, the empty one too,
\* the technical problem / solution / effect sections stand exactly once:
\* in the reply to the first NON PATENTABILITY objection if there is one,
\* otherwise in the trailing SUBMISSION TO NON PATENTABILITY U/S 3 section.
C27_TechnicalSectionsOnce ==
    /\ pc \in {"objections", "regarding claims", "non patentability"}
       => TechnicalInFirst(input.objections, out)
    /\ pc \in {"formal", "returned"} => TechnicalOnce(input.objections, out.doc)

\* a finished reply to three objections, the second and the third of NON
\* PATENTABILITY
C27_Witness ==
    /\ pc = "returned"
    /\ Len(input.objections) = 3
    /\ RepliedNamed(input.objections, 3, Chars("NON PATENTABILITY")) = {2, 3}

\* C28: in the reply, for every sequence of objections, the regarding-claims
\* block stands at most once; a later INVENTIVE STEP or REGARDING CLAIMS
\* objection only refers back to it.
C28_RegardingClaimsAtMostOnce ==
    pc # "claims" => Cardinality(RegardingClaimsAt(out.doc)) <= 1

\* the block stands in the document from the reply to the first INVENTIVE
\* STEP or REGARDING CLAIMS objection on
RegardingUnderFirst(objections, st) ==
    RepliedNamed(objections, st.done, Chars("INVENTIVE STEP"))
        \cup RepliedNamed(objections, st.done, Chars("REGARDING CLAIMS")) # {}
    <=> RegardingClaimsAt(st.doc) # {}

\* the block stands in the finished document, after the label of the
\* trailing section where no objection is one of the two
RegardingAtLeastOnce(objections, doc) ==
    /\ RegardingClaimsAt(doc) # {}
    /\ \A i \in RegardingClaimsAt(doc) : doc[i].kind = "para"
    /\ RepliedNamed(objections, Len(objections), Chars("INVENTIVE STEP"))
           \cup RepliedNamed(objections, Len(objections), Chars("REGARDING CLAIMS")) = {}
       => \E l \in PlacesOf(doc, "obj_label", Chars("REGARDING CLAIMS:")) :
              \A i \in RegardingClaimsAt(doc) : l < i /\ \A j \in (l + 1)..i : doc[j].kind # "heading"

\* C29: whenever the amended claims text has a numbered claim, the reply has
\* the regarding-claims block at least once, for every sequence of
\* objections: under an INVENTIVE STEP or REGARDING CLAIMS objection if there
\* is one, otherwise in a trailing REGARDING CLAIMS: section after the
\* objections.
C29_RegardingClaimsAtLeastOnce ==
    _extract_numbered_claims(input.amended_claims) # <<>>
    => /\ pc \in {"objections", "regarding claims"} => RegardingUnderFirst(input.objections, out)
       /\ pc \in {"non patentability", "formal", "returned"}
          => RegardingAtLeastOnce(input.objections, out.doc)

\* a finished reply with numbered claims to objections none of which is one
\* of INVENTIVE STEP or REGARDING CLAIMS
C29_Witness ==
    /\ pc = "returned"
    /\ _extract_numbered_claims(input.amended_claims) # <<>>
    /\ input.objections # <<>>
    /\ \A i \in DOMAIN input.objections :
           ReplyBranch(StrUpper(input.objections[i].heading)) \notin
               {"INVENTIVE STEP", "REGARDING CLAIMS"}
    /\ RegardingClaimsAt(out.doc) # {}

(***************************************************************************)
(* The temporary files of the uploads: app/main.py                         *)
(***************************************************************************)

\* os.path.splitext(base)[1]: from the last dot of the last path component
\* on, unless nothing but dots stands before it
SplitExt(base) ==
    LET dots == {i \in DOMAIN base : base[i] = "."}
        seps == {i \in DOMAIN base : base[i] = "/"}
        first == IF seps = {} THEN 1 ELSE Max(seps) + 1
    IN  IF dots = {} THEN <<>>
        ELSE IF Max(dots) < first THEN <<>>
        ELSE IF \A i \in first..(Max(dots) - 1) : base[i] = "." THEN <<>>
        ELSE SubSeq(base, Max(dots), Len(base))

_is_safe_ext(ext) ==
    /\ ext # <<>>
    /\ Len(ext) <= 8
    /\ ext[1] = "."
    /\ Len(ext) > 1
    /\ \A i \in 2..Len(ext) : ext[i] \in Alpha \cup Digit

_safe_file_suffix(name, fallback) ==
    IF _is_safe_ext(StrLower(SplitExt(Strip(name, WS))))
    THEN StrLower(SplitExt(Strip(name, WS)))
    ELSE fallback

\* what _ensure_supported_doc_ext raises
HTTPException == <<"HTTPException">>

\* the extension, or HTTPException for status 422
_ensure_supported_doc_ext(name) ==
    IF _safe_file_suffix(name, <<>>) \in {Chars(".pdf"), Chars(".docx")}
    THEN _safe_file_suffix(name, <<>>)
    ELSE HTTPException

\* None as a path
NoPath == 0

\* the name tempfile.NamedTemporaryFile gives its file: one no file has had
NamedTemporaryFile(o) == Cardinality(o.created) + 1

\* with tempfile.NamedTemporaryFile(delete=False, ...) as tmp: the file is on
\* the disk from here on, whatever happens in the block
Opened(o) ==
    [o EXCEPT !.disk = @ \cup {NamedTemporaryFile(o)},
              !.created = @ \cup {NamedTemporaryFile(o)}]

\* an exception leaves the handler with this status
RaisedWith(o, status) == [o EXCEPT !.status = status]

\* how upload.read() and tmp.write() end
SaveOutcomes == {"saved", "read fails", "write fails"}

\* path = await _save_upload_to_temp(upload, ...): the path is returned, and
\* kept in the variable, only when the block ends without an exception
_save_upload_to_temp(o, variable, saved) ==
    IF saved = "saved"
    THEN [Opened(o) EXCEPT ![variable] = NamedTemporaryFile(o)]
    ELSE RaisedWith(Opened(o), "500")

\* the same, the path appended to one of the three lists
SaveToList(o, list, saved) ==
    IF saved = "saved"
    THEN [Opened(o) EXCEPT ![list] = Append(@, NamedTemporaryFile(o))]
    ELSE RaisedWith(Opened(o), "500")

PathsOf(list) == {list[k] : k \in DOMAIN list}

\* the paths the finally clause of generate_reply goes through
FinallyPaths(o) ==
    {p \in {o.fer_path, o.cs_path, o.claims_path}
           \cup PathsOf(o.prior_art_paths)
           \cup PathsOf(o.prior_art_diagram_paths)
           \cup PathsOf(o.technical_effect_image_paths) : p # NoPath}

\* finally: os.remove(p) for every path that is set
Finally(o) == [o EXCEPT !.disk = @ \ FinallyPaths(o)]

\* the names of the uploaded files
Filenames == {Chars("d1.pdf"), Chars("Claims.DOCX"), Chars("notes.txt"), <<>>}

\* the longest list of uploads and of rows in a request
MaxUploads == 2

\* a request: the endpoint, whether amended_claims_pdf is sent, the mode of
\* the prior art, and the lengths of the rows (manual rows in text mode, rows
\* of metadata otherwise) and of the three lists of uploads
Requests ==
    [endpoint : {"parse_fer"}, amended_claims_pdf : {FALSE}, mode : {"pdf"},
     rows : {0}, prior_art_pdfs : {0}, prior_art_diagrams : {0},
     technical_effect_images : {0}]
    \cup
    [endpoint : {"generate_reply"}, amended_claims_pdf : BOOLEAN,
     mode : {"text", "pdf"}, rows : 0..MaxUploads,
     prior_art_pdfs : 0..MaxUploads, prior_art_diagrams : 0..MaxUploads,
     technical_effect_images : 0..MaxUploads]

\* the handler's variables as the request comes in, and an empty disk
NoUploads ==
    [disk |-> {}, created |-> {}, status |-> "running",
     tmp_path |-> NoPath, fer_path |-> NoPath, cs_path |-> NoPath,
     claims_path |-> NoPath, prior_art_paths |-> <<>>,
     prior_art_diagram_paths |-> <<>>, technical_effect_image_paths |-> <<>>,
     i |-> 0, dia_iter |-> 0, j |-> 0]

InitUploads == pc = "fer_pdf" /\ input \in Requests /\ out = NoUploads

\* the rows the loop over the prior art goes through
TotalRows ==
    IF input.mode = "text" THEN input.rows
    ELSE Max({input.rows, input.prior_art_pdfs, input.prior_art_diagrams})

\* where generate_reply goes on: the state after the finally clause when an
\* exception was raised, the next loop that has something to do otherwise
Left(o) == IF o.status = "running" THEN o ELSE Finally(o)

PcAfterImages(o) ==
    IF o.j < input.technical_effect_images THEN "images" ELSE "document"

PcAfterRows(o) == IF o.i < TotalRows THEN "prior_art" ELSE PcAfterImages(o)

PcFrom(o, onward) == IF o.status = "running" THEN onward ELSE "finished"

\* parse_fer: the upload is saved before the try statement
ParseFerSaveUpload ==
    /\ pc = "fer_pdf"
    /\ input.endpoint = "parse_fer"
    /\ \E saved \in SaveOutcomes :
         /\ out' = _save_upload_to_temp(out, "tmp_path", saved)
         /\ pc' = PcFrom(_save_upload_to_temp(out, "tmp_path", saved), "parse")
    /\ UNCHANGED input

\* parse_fer: parse_fer_pdf returns or raises, and finally removes tmp_path
ParseFerReturn ==
    /\ pc = "parse"
    /\ input.endpoint = "parse_fer"
    /\ \E parsed \in BOOLEAN :
         out' = [out EXCEPT !.disk = @ \ {out.tmp_path},
                            !.status = IF parsed THEN "200" ELSE "500"]
    /\ pc' = "finished"
    /\ UNCHANGED input

\* generate_reply: fer_path = await _save_upload_to_temp(fer_pdf, ".pdf")
SaveFerPdf ==
    /\ pc = "fer_pdf"
    /\ input.endpoint = "generate_reply"
    /\ \E saved \in SaveOutcomes :
         /\ out' = Left(_save_upload_to_temp(out, "fer_path", saved))
         /\ pc' = PcFrom(_save_upload_to_temp(out, "fer_path", saved), "cs_pdf")
    /\ UNCHANGED input

\* a document whose extension is tested before it is saved
SavedDocument(o, variable, name, saved) ==
    IF _ensure_supported_doc_ext(name) = HTTPException THEN RaisedWith(o, "422")
    ELSE _save_upload_to_temp(o, variable, saved)

\* generate_reply: the complete specification
SaveCsPdf ==
    /\ pc = "cs_pdf"
    /\ \E name \in Filenames, saved \in SaveOutcomes :
         /\ out' = Left(SavedDocument(out, "cs_path", name, saved))
         /\ pc' = PcFrom(SavedDocument(out, "cs_path", name, saved),
                         "amended_claims_pdf")
    /\ UNCHANGED input

\* generate_reply: the amended claims, when they are sent
SaveAmendedClaims ==
    /\ pc = "amended_claims_pdf"
    /\ \E name \in Filenames, saved \in SaveOutcomes :
         LET o == IF input.amended_claims_pdf
                  THEN SavedDocument(out, "claims_path", name, saved)
                  ELSE out
         IN  /\ out' = Left(o)
             /\ pc' = PcFrom(o, "parse")
    /\ UNCHANGED input

\* generate_reply: parse_fer_pdf and the extractions from the report, the
\* specification and the claims, any of which may raise
ParseDocuments ==
    /\ pc = "parse"
    /\ input.endpoint = "generate_reply"
    /\ \E parsed \in BOOLEAN :
         LET o == IF parsed THEN out ELSE RaisedWith(out, "500")
         IN  /\ out' = Left(o)
             /\ pc' = PcFrom(o, PcAfterRows(out))
    /\ UNCHANGED input

\* the upload of a prior art document in one row
PriorArtUpload(o, name, saved, scanned, parsed) ==
    IF _ensure_supported_doc_ext(name) = HTTPException THEN RaisedWith(o, "422")
    ELSE IF saved # "saved" THEN SaveToList(o, "prior_art_paths", saved)
    ELSE IF _ensure_supported_doc_ext(name) = Chars(".pdf") /\ scanned
    THEN RaisedWith(SaveToList(o, "prior_art_paths", saved), "422")
    ELSE IF ~parsed THEN RaisedWith(SaveToList(o, "prior_art_paths", saved), "500")
    ELSE SaveToList(o, "prior_art_paths", saved)

\* dimg = next(dia_iter, None) when the row has a diagram
NextDiagram(o, has_diagram) ==
    IF has_diagram /\ o.dia_iter < input.prior_art_diagrams
    THEN [o EXCEPT !.dia_iter = @ + 1]
    ELSE o

\* whether the row has an upload of a diagram: the next of the iterator, or
\* in pdf mode without rows of metadata the one at the index of the row
DiagramSent(o, has_diagram) ==
    \/ has_diagram /\ o.dia_iter < input.prior_art_diagrams
    \/ /\ input.mode # "text"
       /\ input.rows = 0
       /\ o.i < input.prior_art_diagrams

\* the upload of the diagram of one row
DiagramUpload(o, has_diagram, name, saved) ==
    IF o.status # "running" THEN o
    ELSE IF ~DiagramSent(o, has_diagram) \/ Strip(name, WS) = <<>>
    THEN NextDiagram(o, has_diagram)
    ELSE SaveToList(NextDiagram(o, has_diagram), "prior_art_diagram_paths", saved)

\* one row of the loop over the prior art, in text mode or in pdf mode
RowDone(o) == IF o.status = "running" THEN [o EXCEPT !.i = @ + 1] ELSE o

PriorArtRowOf(o, name, saved, scanned, parsed, has_diagram, dname, dsaved) ==
    RowDone(DiagramUpload(
        IF input.mode # "text" /\ o.i < input.prior_art_pdfs
        THEN PriorArtUpload(o, name, saved, scanned, parsed)
        ELSE o,
        has_diagram, dname, dsaved))

\* whether the row can have a diagram: a manual row, or the row of metadata
\* at the index of the row. The row with the name of the upload is never
\* found for a document that is saved: clean_prior_art_text ends a name with
\* ".", "!" or "?", and such a name has no supported extension
RowSent(o) == o.i < input.rows

PriorArtRow ==
    /\ pc = "prior_art"
    /\ \E name \in Filenames, saved \in SaveOutcomes, scanned \in BOOLEAN,
          parsed \in BOOLEAN,
          has_diagram \in IF RowSent(out) THEN BOOLEAN ELSE {FALSE},
          dname \in Filenames, dsaved \in SaveOutcomes :
         LET o == PriorArtRowOf(out, name, saved, scanned, parsed,
                                has_diagram, dname, dsaved)
         IN  /\ out' = Left(o)
             /\ pc' = PcFrom(o, PcAfterRows(o))
    /\ UNCHANGED input

\* one image of the technical effect; one without a name is passed over
SaveTechnicalEffectImage ==
    /\ pc = "images"
    /\ \E name \in Filenames, saved \in SaveOutcomes :
         LET o == IF Strip(name, WS) = <<>> THEN out
                  ELSE SaveToList(out, "technical_effect_image_paths", saved)
             n == IF o.status = "running" THEN [o EXCEPT !.j = @ + 1] ELSE o
         IN  /\ out' = Left(n)
             /\ pc' = PcFrom(n, PcAfterImages(n))
    /\ UNCHANGED input

\* generate_reply_docx and doc.save return or raise, and finally runs
GenerateDocument ==
    /\ pc = "document"
    /\ \E generated \in BOOLEAN :
         out' = Finally(RaisedWith(out, IF generated THEN "200" ELSE "500"))
    /\ pc' = "finished"
    /\ UNCHANGED input

NextUploads ==
    \/ ParseFerSaveUpload
    \/ ParseFerReturn
    \/ SaveFerPdf
    \/ SaveCsPdf
    \/ SaveAmendedClaims
    \/ ParseDocuments
    \/ PriorArtRow
    \/ SaveTechnicalEffectImage
    \/ GenerateDocument

SpecUploads == InitUploads /\ [][NextUploads]_vars

\* C30: when a request to /api/generate_reply or /api/parse_fer has finished,
\* with a response or with an exception, no temporary file that was created
\* for one of its uploads is left on the disk.
C30_TempFilesRemoved ==
    pc = "finished" => out.created \cap out.disk = {}

\* a file is left only by a request that ended in an exception of
\* _save_upload_to_temp or of the with block of parse_fer, and it is the file
\* of that upload, the last one created
OnlyFailedSaveLeft ==
    pc = "finished" /\ out.disk # {} =>
        /\ out.status = "500"
        /\ out.disk = {Cardinality(out.created)}
        /\ out.disk \cap (FinallyPaths(out) \cup {out.tmp_path}) = {}

\* a request that answers 200 or 422 leaves nothing
RemovedOnResponse ==
    pc = "finished" /\ out.status \in {"200", "422"} => out.disk = {}

====
